---- MODULE Spec2Model ----
(***************************************************************************)
(* Real-time pipeline of the arbitrage monitor (arbitrage_monitor_v2):     *)
(* DataReceiver callbacks -> bounded asyncio queues -> DataProcessor       *)
(* state store -> analysis loop (SpreadCalculator, OpportunityFinder).     *)
(* All coroutines run on one asyncio event loop, so a callback, one        *)
(* iteration of the processing loop and one iteration of the analysis loop *)
(* run without interleaving between two awaits.                            *)
(***************************************************************************)
EXTENDS Integers, Sequences, FiniteSets, TLC

VARIABLES
    cfg,                   \* MonitorConfig: exchanges, symbols, queue sizes, min_spread_pct
    now,                   \* wall clock read by datetime.now(), in seconds
    loop_exchange,         \* subscribe_all's loop variable `exchange` once the loop has ended
    orderbook_queue,       \* asyncio.Queue(maxsize=orderbook_queue_size)
    ticker_queue,          \* asyncio.Queue(maxsize=ticker_queue_size)
    stats,                 \* DataReceiver.stats
    orderbooks,            \* DataProcessor.orderbooks           {exchange: {symbol: data}}
    orderbook_timestamps,  \* DataProcessor.orderbook_timestamps
    tickers,               \* DataProcessor.tickers
    ticker_timestamps,     \* DataProcessor.ticker_timestamps
    n_events,              \* history: number of adapter callbacks so far (identity of a payload)
    last_cb,               \* history: the adapter callback the last step ran, with its arguments
    opportunities,         \* OpportunityFinder.opportunities  {key: ArbitrageOpportunity}
    of_stats,              \* OpportunityFinder.stats
    an_idx,                \* _analysis_loop: symbols of config.symbols done in this iteration
    all_opportunities,     \* _analysis_loop: the local list all_opportunities
    symbol_spreads,        \* _analysis_loop: the local dict symbol_spreads
    calc_arg,              \* the orderbooks dict of a pending direct call of calculate_spreads
    calc_in,               \* the orderbooks dict last handed to calculate_spreads
    spreads,               \* the list calculate_spreads last returned
    returned,              \* the list find_opportunities last returned
    tick,                  \* history of the current and the previous analysis iteration
    ui_opportunities,               \* UIManager.opportunities
    ui_opportunity_tracking,        \* UIManager._ui_opportunity_tracking
    symbol_occurrence_timestamps,   \* UIManager._symbol_occurrence_timestamps
    disappeared_opportunities,      \* UIManager._disappeared_opportunities
    ui_history,                     \* history: per key, when update_opportunities had and lacked it
    frame,                          \* the opportunities table the last step generated, or None
    scroller,                       \* the RealtimeScroller of finder and processor, or None
    orch,                           \* ArbitrageOrchestrator: running, adapters, tasks, pending stop
    processing_errors,              \* DataProcessor.stats['processing_errors']
    ui_data,                        \* UIManager: data timestamps and the cached snapshots
    replica,                        \* a second OpportunityFinder, fed the same inputs
    retry                           \* one call of a coroutine wrapped by query_retry

pipeVars == <<orderbook_queue, ticker_queue, stats, orderbooks, orderbook_timestamps,
              tickers, ticker_timestamps, n_events, last_cb>>

anVars == <<opportunities, of_stats, an_idx, all_opportunities, symbol_spreads,
            calc_arg, calc_in, spreads, returned, tick>>

uiState == <<ui_opportunities, ui_opportunity_tracking, symbol_occurrence_timestamps,
             disappeared_opportunities, ui_history>>

uiVars == <<uiState, frame>>

\* the state outside the pipeline, the analysis loop and the table
extVars == <<replica, retry>>

auxRest == <<orch, processing_errors, ui_data, extVars>>

auxVars == <<scroller, auxRest>>

vars == <<cfg, now, loop_exchange, pipeVars, anVars, uiVars, auxVars>>

-----------------------------------------------------------------------------
(* Bounds of the model *)

MaxEvents == 3      \* adapter callbacks in one behaviour
MaxTime == 31       \* the clock stops here
QueueCap == 2       \* orderbook_queue_size of the modelled configuration
TickerCap == 1      \* ticker_queue_size of the modelled configuration
MaxLoopErrors == 2  \* loop iterations that raise in one behaviour
MaxStartCalls == 2  \* calls of start() in one behaviour
MaxRetryAttempts == 5   \* largest max_attempts a wrapped coroutine is given

(* Program constants *)

PctScale == 10000           \* spread_pct and min_spread_pct in units of 1/10000 percent
BatchLimit == 50            \* items per queue per iteration of _process_loop
DataTimeoutSeconds == 30    \* MonitorConfig.data_timeout_seconds
UiToleranceSeconds == 2     \* UIManager._ui_tolerance_seconds
OccurrenceWindowMinutes == 15   \* UIManager._occurrence_window_minutes
OccurrenceGapSeconds == 1   \* update_opportunities: no second timestamp within 1.0 s
DisplayDelaySeconds == 5    \* UIManager._display_delay_seconds
ScrollerMaxMessages == 20    \* RealtimeScroller(max_messages=20)
SymbolDedupSeconds == 1      \* RealtimeScroller._symbol_dedup_seconds
DisconnectTimeout == 3       \* cleanup: asyncio.wait_for(..., timeout=3.0)
UiUpdateInterval == 1        \* ArbitrageOrchestrator.ui_update_interval
PriceUpdateInterval == 1
ThrottleMs == 500          \* RealtimeScroller(throttle_ms=500)
PriceChangeScale == 10000  \* a mid-price change below 0.01 % is 1 / 10000 of the price     \* UIManager.price_update_interval
DisplayLimit == 50          \* _fill_opportunities: limit=50

-----------------------------------------------------------------------------
(* Optional values: None is the empty tuple, a present value a 1-tuple *)

None == <<>>
Some(x) == <<x>>
IsNone(o) == o = <<>>
Val(o) == o[1]

Range(s) == {s[i] : i \in 1..Len(s)}

ExchangeUniverse == {"edgex", "lighter", "backpack"}
SymbolUniverse == {"BTC-USDC-PERP", "ETH-USDC-PERP"}
StoreKeys == ExchangeUniverse \X SymbolUniverse

(* OrderBookData as the callbacks see it: best_bid / best_ask are a level or None *)
Level(p, s) == Some([price |-> p, size |-> s])
\* uid stands for the identity of the payload object
Book(sym, bid, ask) == [symbol |-> sym, best_bid |-> bid, best_ask |-> ask, uid |-> 0]

-----------------------------------------------------------------------------
(* asyncio.Queue as the receiver and the processor use it *)

\* Queue.full(): a queue built with maxsize <= 0 is never full
QueueFullMutant(q, maxsize) == FALSE
QueueFull(q, maxsize) == maxsize > 0 /\ Len(q) >= maxsize

\* except asyncio.QueueFull: get_nowait() then put_nowait(item)
DropOldest(q, item) == Append(Tail(q), item)

QueueItem(exchange, symbol, data, t) ==
    [exchange |-> exchange, symbol |-> symbol, data |-> data, timestamp |-> t]

\* DataReceiver._create_orderbook_callback(exchange)(symbol, orderbook):
\* the queue and the stats after the call
StdOrderbookCallback(exchange, symbol, orderbook, q, st, t) ==
    LET item == QueueItem(exchange, symbol, orderbook, t) IN
    IF IsNone(orderbook.best_bid) \/ IsNone(orderbook.best_ask)
    THEN [queue |-> q, stats |-> st]
    ELSE IF Val(orderbook.best_bid).price <= 0 \/ Val(orderbook.best_ask).price <= 0
    THEN [queue |-> q, stats |-> st]
    ELSE IF ~QueueFull(q, cfg.orderbook_queue_size)
    THEN [queue |-> Append(q, item),
          stats |-> [st EXCEPT !.orderbook_received = @ + 1]]
    ELSE [queue |-> DropOldest(q, item),
          stats |-> [st EXCEPT !.orderbook_dropped = @ + 1]]

\* lighter_orderbook_callback(orderbook): validates and enqueues itself; any
\* exception of put_nowait (QueueFull) only counts a drop
LighterOrderbookCallback(std_symbol, orderbook, q, st, t) ==
    LET item == QueueItem("lighter", std_symbol, orderbook, t) IN
    IF std_symbol \notin Range(cfg.symbols)
    THEN [queue |-> q, stats |-> st]
    ELSE IF IsNone(orderbook.best_bid) \/ IsNone(orderbook.best_ask)
    THEN [queue |-> q, stats |-> st]
    ELSE IF Val(orderbook.best_bid).price <= 0 \/ Val(orderbook.best_ask).price <= 0
    THEN [queue |-> q, stats |-> st]
    ELSE IF ~QueueFull(q, cfg.orderbook_queue_size)
    THEN [queue |-> Append(q, item),
          stats |-> [st EXCEPT !.orderbook_received = @ + 1]]
    ELSE [queue |-> q,
          stats |-> [st EXCEPT !.orderbook_dropped = @ + 1]]

\* edgex_orderbook_callback_wrapper(symbol, orderbook): the standard callback is
\* built at call time from the enclosing loop variable `exchange`
EdgexOrderbookCallback(std_symbol, orderbook, q, st, t) ==
    IF std_symbol \in Range(cfg.symbols)
    THEN StdOrderbookCallback(loop_exchange, std_symbol, orderbook, q, st, t)
    ELSE [queue |-> q, stats |-> st]

\* DataReceiver._create_ticker_callback(exchange)(symbol, ticker)
StdTickerCallback(exchange, symbol, ticker, q, st, t) ==
    LET item == QueueItem(exchange, symbol, ticker, t) IN
    IF ~QueueFull(q, cfg.ticker_queue_size)
    THEN [queue |-> Append(q, item),
          stats |-> [st EXCEPT !.ticker_received = @ + 1]]
    ELSE [queue |-> DropOldest(q, item),
          stats |-> [st EXCEPT !.ticker_dropped = @ + 1]]

\* lighter_ticker_callback / edgex_ticker_callback_wrapper: watch-list check,
\* then the standard ticker callback
WatchedTickerCallback(exchange, std_symbol, ticker, q, st, t) ==
    IF std_symbol \in Range(cfg.symbols)
    THEN StdTickerCallback(exchange, std_symbol, ticker, q, st, t)
    ELSE [queue |-> q, stats |-> st]

\* which callback subscribe_all registered for a venue
OrderbookCallbackOf(venue, symbol, orderbook, q, st, t) ==
    IF venue = "lighter" THEN LighterOrderbookCallback(symbol, orderbook, q, st, t)
    ELSE IF venue = "edgex" THEN EdgexOrderbookCallback(symbol, orderbook, q, st, t)
    ELSE StdOrderbookCallback(venue, symbol, orderbook, q, st, t)

TickerCallbackOf(venue, symbol, ticker, q, st, t) ==
    IF venue = "lighter" THEN WatchedTickerCallback("lighter", symbol, ticker, q, st, t)
    ELSE IF venue = "edgex" THEN WatchedTickerCallback(loop_exchange, symbol, ticker, q, st, t)
    ELSE StdTickerCallback(venue, symbol, ticker, q, st, t)

-----------------------------------------------------------------------------
(* DataProcessor *)

ProcessItemMutant(item, store) ==
    LET key == <<item.exchange, item.symbol>>
    IN [data |-> [store.data EXCEPT ![key] = Some(item.data)],
        timestamps |-> store.timestamps]

\* _process_orderbook / _process_ticker on one item: the store {data, timestamps} after it
ProcessItem(item, store) ==
    LET key == <<item.exchange, item.symbol>>
    IN [data |-> [store.data EXCEPT ![key] = Some(item.data)],
        timestamps |-> [store.timestamps EXCEPT ![key] = Some(item.timestamp)]]

RECURSIVE ProcessItemsMutant(_, _)
ProcessItemsMutant(items, store) ==
    IF items = <<>> THEN store
    ELSE ProcessItem(Head(items), ProcessItemsMutant(Tail(items), store))

\* the inner while loop: get_nowait() and process, oldest item first
RECURSIVE ProcessItems(_, _)
ProcessItems(items, store) ==
    IF items = <<>> THEN store
    ELSE ProcessItems(Tail(items), ProcessItem(Head(items), store))

\* the items one pass of the inner while loop takes: from the head, at most 50
TakeBatch(q) == SubSeq(q, 1, IF Len(q) < BatchLimit THEN Len(q) ELSE BatchLimit)
RestAfterBatch(q) == SubSeq(q, Len(TakeBatch(q)) + 1, Len(q))

-----------------------------------------------------------------------------
(* SpreadCalculator *)


\* float((spread_abs / price) * 100)
SpreadPct(spread_abs, price) == (spread_abs * 100 * PctScale) \div price

\* SpreadCalculator._validate_orderbook
ValidateOrderbookMutant(orderbook) ==
    IF IsNone(orderbook.best_bid) \/ IsNone(orderbook.best_ask) THEN FALSE
    ELSE IF Val(orderbook.best_bid).price <= 0 \/ Val(orderbook.best_ask).price <= 0 THEN FALSE
    ELSE IF Val(orderbook.best_bid).size <= 0 \/ Val(orderbook.best_ask).size <= 0 THEN FALSE
    ELSE TRUE

ValidateOrderbook(orderbook) ==
    IF IsNone(orderbook.best_bid) \/ IsNone(orderbook.best_ask) THEN FALSE
    ELSE IF Val(orderbook.best_bid).price <= 0 \/ Val(orderbook.best_ask).price <= 0 THEN FALSE
    ELSE IF Val(orderbook.best_bid).size <= 0 \/ Val(orderbook.best_ask).size <= 0 THEN FALSE
    ELSE IF Val(orderbook.best_bid).price >= Val(orderbook.best_ask).price THEN FALSE
    ELSE TRUE

\* the SpreadData of one direction
SpreadData(symbol, ex_b, ex_s, ask, bid, spread_abs, spread_pct) ==
    [symbol |-> symbol, exchange_buy |-> ex_b, exchange_sell |-> ex_s,
     price_buy |-> ask.price, price_sell |-> bid.price,
     size_buy |-> ask.size, size_sell |-> bid.size,
     spread_abs |-> spread_abs, spread_pct |-> spread_pct]

DirectionMutant(symbol, ex_b, ob_b, ex_s, ob_s) ==
    LET ask == Val(ob_b.best_ask)
        bid == Val(ob_s.best_bid)
        spread_abs == bid.price - ask.price
        spread_pct == SpreadPct(spread_abs, ask.price)
    IN IF bid.price > ask.price /\ spread_pct > 0
       THEN << SpreadData(symbol, ex_b, ex_s, bid, ask, spread_abs, spread_pct) >>
       ELSE <<>>

\* one direction of a pair: buy at ex_b's ask, sell at ex_s's bid
Direction(symbol, ex_b, ob_b, ex_s, ob_s) ==
    LET ask == Val(ob_b.best_ask)
        bid == Val(ob_s.best_bid)
        spread_abs == bid.price - ask.price
        spread_pct == SpreadPct(spread_abs, ask.price)
    IN IF bid.price > ask.price /\ spread_pct > 0
       THEN << SpreadData(symbol, ex_b, ex_s, ask, bid, spread_abs, spread_pct) >>
       ELSE <<>>

\* the body of the inner loop for the pair (ex1, ex2)
PairSpreads(symbol, e1, e2) ==
    IF ~ValidateOrderbook(e1[2]) \/ ~ValidateOrderbook(e2[2]) THEN <<>>
    ELSE Direction(symbol, e1[1], e1[2], e2[1], e2[2])
         \o Direction(symbol, e2[1], e2[2], e1[1], e1[2])

\* for ex2 in enumerate(exchanges[i+1:], start=i+1)
RECURSIVE InnerLoop(_, _, _, _)
InnerLoop(symbol, obs, i, j) ==
    IF j > Len(obs) THEN <<>>
    ELSE PairSpreads(symbol, obs[i], obs[j]) \o InnerLoop(symbol, obs, i, j + 1)

\* where the inner loop over exchanges[i+1:] starts
InnerStartMutant(i) == 1
InnerStart(i) == i + 1

\* for i, ex1 in enumerate(exchanges)
RECURSIVE OuterLoop(_, _, _)
OuterLoop(symbol, obs, i) ==
    IF i > Len(obs) THEN <<>>
    ELSE InnerLoop(symbol, obs, i, InnerStart(i)) \o OuterLoop(symbol, obs, i + 1)

\* SpreadCalculator.calculate_spreads(symbol, orderbooks); the dict orderbooks is
\* the sequence of its (exchange, orderbook) entries in insertion order
CalculateSpreads(symbol, obs) == OuterLoop(symbol, obs, 1)

-----------------------------------------------------------------------------
(* OpportunityFinder *)

OppKey(symbol, exchange_buy, exchange_sell) == <<symbol, exchange_buy, exchange_sell>>
SpreadKey(s) == OppKey(s.symbol, s.exchange_buy, s.exchange_sell)

\* funding_rates.get(exchange, {}).get(symbol)
FundingGet(funding_rates, exchange) ==
    IF exchange \in DOMAIN funding_rates THEN funding_rates[exchange] ELSE None

\* the filter of find_opportunities: a spread below the threshold is skipped
BelowThresholdMutant(s) == FALSE
BelowThreshold(s) == s.spread_pct < cfg.min_spread_pct

\* RealtimeScroller.__init__
\* last_print_time None is the initial 0, which lies before every reading of
\* time.time() by more than the throttle interval; last_prices holds twice the
\* mid-price
NewScroller ==
    [recent_messages |-> <<>>, symbol_last_shown |-> <<>>,
     last_print_time |-> None, last_prices |-> <<>>]

\* deque(maxlen=max_messages).append
DequeAppend(q, x) ==
    IF Len(q) < ScrollerMaxMessages THEN Append(q, x) ELSE Append(Tail(q), x)

\* RealtimeScroller.print_opportunity at time t; sc is None for a finder without
\* scroller; the message keeps the direction, the spread and the funding part
PrintOpportunity(sc, s, funding_rate_diff, t) ==
    IF IsNone(sc) THEN sc
    ELSE IF /\ s.symbol \in DOMAIN Val(sc).symbol_last_shown
            /\ t - Val(sc).symbol_last_shown[s.symbol] < SymbolDedupSeconds
    THEN sc
    ELSE Some([Val(sc) EXCEPT
                  !.recent_messages =
                      DequeAppend(@, [at |-> t, key |-> SpreadKey(s),
                                      spread_pct |-> s.spread_pct,
                                      funding_rate_diff |-> funding_rate_diff]),
                  !.symbol_last_shown = (s.symbol :> t) @@ @])

\* the throttle check of print_orderbook_update at time t (seconds)
Throttled(s, t) ==
    ~IsNone(s.last_print_time) /\ (t - Val(s.last_print_time)) * 1000 < ThrottleMs

\* the price check: a line was printed for the key and the mid-price moved by
\* less than 0.01 % of it since
PriceUnchanged(s, exchange, symbol, bid_price, ask_price) ==
    /\ <<exchange, symbol>> \in DOMAIN s.last_prices
    /\ s.last_prices[<<exchange, symbol>>] > 0
    /\ LET last == s.last_prices[<<exchange, symbol>>]
           cur == bid_price + ask_price
           diff == IF cur >= last THEN cur - last ELSE last - cur
       IN diff * PriceChangeScale < last

\* RealtimeScroller.print_orderbook_update(exchange, symbol, bid_price, bid_size,
\* ask_price, ask_size) at time t, on the scroller object s
PrintOrderbookUpdate(s, exchange, symbol, bid_price, ask_price, t) ==
    IF Throttled(s, t) THEN s
    ELSE IF PriceUnchanged(s, exchange, symbol, bid_price, ask_price) THEN s
    ELSE [s EXCEPT
             !.last_prices = (<<exchange, symbol>> :> (bid_price + ask_price)) @@ @,
             !.recent_messages =
                 DequeAppend(@, [at |-> t, exchange |-> exchange, symbol |-> symbol,
                                 bid_price |-> bid_price, ask_price |-> ask_price]),
             !.last_print_time = Some(t)]

\* the parameters print_orderbook_update accepts, and the keywords
\* _process_orderbook calls it with
PrintOrderbookParams ==
    {"exchange", "symbol", "bid_price", "bid_size", "ask_price", "ask_size"}

ProcessorKeywords ==
    {"exchange", "symbol", "bid_price", "bid_size", "ask_price", "ask_size", "funding_rate"}

\* the opportunity of spread s after the create-or-update branch
UpsertOpportunity(opps, s, t) ==
    IF SpreadKey(s) \in DOMAIN opps
    THEN [opps[SpreadKey(s)] EXCEPT
             !.price_buy = s.price_buy, !.price_sell = s.price_sell,
             !.size_buy = s.size_buy, !.size_sell = s.size_sell,
             !.spread_pct = s.spread_pct,
             !.last_seen = t,
             !.duration_seconds = t - opps[SpreadKey(s)].first_seen]
    ELSE [symbol |-> s.symbol, exchange_buy |-> s.exchange_buy,
          exchange_sell |-> s.exchange_sell,
          price_buy |-> s.price_buy, price_sell |-> s.price_sell,
          size_buy |-> s.size_buy, size_sell |-> s.size_sell,
          spread_pct |-> s.spread_pct,
          funding_rate_buy |-> None, funding_rate_sell |-> None,
          funding_rate_diff |-> None,
          duration_seconds |-> 0, first_seen |-> t, last_seen |-> t]

\* the funding-rate block of the loop body
AttachFunding(opp, funding_rates) ==
    IF DOMAIN funding_rates = {} THEN opp
    ELSE LET fb == FundingGet(funding_rates, opp.exchange_buy)
             fs == FundingGet(funding_rates, opp.exchange_sell)
         IN [opp EXCEPT !.funding_rate_buy = fb, !.funding_rate_sell = fs,
                        !.funding_rate_diff =
                            IF ~IsNone(fb) /\ ~IsNone(fs)
                            THEN Some(Val(fs) - Val(fb)) ELSE @]

\* the local funding_rate_diff of the loop body: set only when both rates are there
LocalFundingDiff(opp, funding_rates) ==
    IF /\ DOMAIN funding_rates # {}
       /\ ~IsNone(opp.funding_rate_buy) /\ ~IsNone(opp.funding_rate_sell)
    THEN opp.funding_rate_diff ELSE None

\* the for loop of find_opportunities over spreads[i..]; acc carries
\* self.opportunities, current_opportunities, current_keys and the keys created
RECURSIVE FindLoop(_, _, _, _, _)
FindLoop(sp, i, funding_rates, acc, t) ==
    IF i > Len(sp) THEN acc
    ELSE IF BelowThreshold(sp[i]) THEN FindLoop(sp, i + 1, funding_rates, acc, t)
    ELSE LET key == SpreadKey(sp[i])
             opp == AttachFunding(UpsertOpportunity(acc.opps, sp[i], t), funding_rates)
             \* the call in the create branch, then the call after the funding block
             first == IF key \in DOMAIN acc.opps THEN acc.scroller
                      ELSE PrintOpportunity(acc.scroller, sp[i], None, t)
             second == PrintOpportunity(first, sp[i], LocalFundingDiff(opp, funding_rates), t)
         IN FindLoop(sp, i + 1, funding_rates,
                [scroller |-> second,
                 opps |-> (key :> opp) @@ acc.opps,
                 current |-> Append(acc.current, key),
                 keys |-> acc.keys \cup {key},
                 created |-> IF key \in DOMAIN acc.opps THEN acc.created
                             ELSE acc.created \cup {key}],
                t)

\* the keys the cleanup of find_opportunities deletes
ExpiredKeysMutant(opps, current_keys) ==
    {k \in DOMAIN opps \ current_keys :
        \A c \in current_keys : opps[k].last_seen < opps[c].last_seen}

ExpiredKeys(opps, current_keys) == DOMAIN opps \ current_keys

\* Timsort with reverse=True on spread_pct: stable, non-increasing
RECURSIVE InsertDesc(_, _)
InsertDesc(sorted, o) ==
    IF sorted = <<>> THEN <<o>>
    ELSE IF Head(sorted).spread_pct >= o.spread_pct
    THEN <<Head(sorted)>> \o InsertDesc(Tail(sorted), o)
    ELSE <<o>> \o sorted

RECURSIVE SortDesc(_)
SortDesc(list) ==
    IF list = <<>> THEN <<>>
    ELSE InsertDesc(SortDesc(SubSeq(list, 1, Len(list) - 1)), list[Len(list)])

\* OpportunityFinder.find_opportunities(spreads, funding_rates) at time t
FindOpportunities(sp, funding_rates, opps, st, sc, t) ==
    LET acc == FindLoop(sp, 1, funding_rates,
                   [scroller |-> sc, opps |-> opps, current |-> <<>>, keys |-> {},
                    created |-> {}], t)
        expired == ExpiredKeys(acc.opps, acc.keys)
    IN [scroller |-> acc.scroller,
        opportunities |-> [k \in DOMAIN acc.opps \ expired |-> acc.opps[k]],
        stats |-> [opportunities_found |-> st.opportunities_found + Cardinality(acc.created),
                   opportunities_expired |-> st.opportunities_expired + Cardinality(expired)],
        result |-> SortDesc([i \in 1..Len(acc.current) |-> acc.opps[acc.current[i]]]),
        keys |-> acc.keys,
        created |-> acc.created,
        expired |-> expired]

-----------------------------------------------------------------------------
(* The analysis loop of the orchestrator *)

\* the dict orderbooks of one symbol: the entries of the venues of
\* config.exchanges, in that order, that the processor holds
RECURSIVE GatherOrderbooks(_, _)
GatherOrderbooks(exchanges, symbol) ==
    IF exchanges = <<>> THEN <<>>
    ELSE LET ob == orderbooks[<<Head(exchanges), symbol>>]
         IN (IF IsNone(ob) THEN <<>> ELSE << <<Head(exchanges), Val(ob)>> >>)
            \o GatherOrderbooks(Tail(exchanges), symbol)

\* the dict funding_rates of one symbol: {exchange: ticker.funding_rate}
GatherFunding(symbol) ==
    [ex \in {e \in Range(cfg.exchanges) : ~IsNone(tickers[<<e, symbol>>])}
        |-> Val(tickers[<<ex, symbol>>]).funding_rate]

\* max(spreads, key=spread_pct).spread_pct, or 0.0 for no spread
BestSpreadPct(sp) ==
    IF sp = <<>> THEN 0
    ELSE CHOOSE m \in {sp[i].spread_pct : i \in 1..Len(sp)} :
             \A i \in 1..Len(sp) : sp[i].spread_pct <= m

-----------------------------------------------------------------------------
(* UIManager: the display state update_opportunities keeps, and the table
   _fill_opportunities renders *)

\* ArbitrageOpportunity.get_opportunity_key()
OpportunityKey(opp) == OppKey(opp.symbol, opp.exchange_buy, opp.exchange_sell)

ListKeys(list) == {OpportunityKey(list[i]) : i \in 1..Len(list)}
ListSymbols(list) == {list[i].symbol : i \in 1..Len(list)}

\* the state of a UIManager as update_opportunities and _fill_opportunities use it
UiState(opps, tracking, occurrences, disappeared) ==
    [opportunities |-> opps, tracking |-> tracking,
     occurrences |-> occurrences, disappeared |-> disappeared]

\* the cleanup of the timestamps: only ts > cutoff_time stay, an empty list is deleted
PruneOccurrences(occ, t) ==
    LET kept == [sym \in DOMAIN occ |->
                    SelectSeq(occ[sym], LAMBDA ts : ts > t - OccurrenceWindowMinutes * 60)]
    IN [sym \in {x \in DOMAIN occ : kept[x] # <<>>} |-> kept[sym]]

\* the timestamp list of opp.symbol after the loop body: now is appended when the
\* list is empty or its last entry is more than 1.0 s old
RecordOccurrence(occ, symbol, t) ==
    LET list == IF symbol \in DOMAIN occ THEN occ[symbol] ELSE <<>>
    IN (symbol :> (IF list = <<>> \/ t - list[Len(list)] > OccurrenceGapSeconds
                   THEN Append(list, t) ELSE list)) @@ occ

TrackOpportunityMutant(tracking, key, t) ==
    (key :> [ui_duration_start |-> t, last_seen |-> t]) @@ tracking

\* the duration tolerance of the loop body
TrackOpportunity(tracking, key, t) ==
    IF key \in DOMAIN tracking
    THEN IF t - tracking[key].last_seen <= UiToleranceSeconds
         THEN [tracking EXCEPT ![key].last_seen = t]
         ELSE [tracking EXCEPT ![key] = [ui_duration_start |-> t, last_seen |-> t]]
    ELSE (key :> [ui_duration_start |-> t, last_seen |-> t]) @@ tracking

\* `for opp in opportunities` from element i on; acc carries the two dicts
RECURSIVE UiLoop(_, _, _, _)
UiLoop(list, i, acc, t) ==
    IF i > Len(list) THEN acc
    ELSE UiLoop(list, i + 1,
             [occurrences |-> RecordOccurrence(acc.occurrences, list[i].symbol, t),
              tracking |-> TrackOpportunity(acc.tracking, OpportunityKey(list[i]), t)],
             t)

\* the first opportunity of old_opportunities with this key, or None
FindOld(old, key) ==
    LET hits == {i \in 1..Len(old) : OpportunityKey(old[i]) = key}
    IN IF hits = {} THEN None
       ELSE Some(old[CHOOSE i \in hits : \A j \in hits : i <= j])

\* the keys that left the list: each enters the disappeared dict unless it is
\* there already (or no old opportunity has its key)
HoldExpired(disappeared, tracking, current_keys, old, t) ==
    LET expired_keys == DOMAIN tracking \ current_keys
        added == {k \in expired_keys \ DOMAIN disappeared : ~IsNone(FindOld(old, k))}
    IN [k \in DOMAIN disappeared \cup added |->
           IF k \in DOMAIN disappeared THEN disappeared[k]
           ELSE [opportunity |-> Val(FindOld(old, k)), disappeared_at |-> t]]

\* ... and leaves the tracking dict once it was last seen more than 2 s ago
DropExpiredTracking(tracking, current_keys, t) ==
    LET gone == {k \in DOMAIN tracking \ current_keys :
                    t - tracking[k].last_seen > UiToleranceSeconds}
    IN [k \in DOMAIN tracking \ gone |-> tracking[k]]

\* entries that disappeared more than 5 s ago are deleted
PurgeDisappeared(disappeared, t) ==
    [k \in {x \in DOMAIN disappeared :
                t - disappeared[x].disappeared_at <= DisplayDelaySeconds}
        |-> disappeared[k]]

RemoveReappearedMutant(disappeared, current_keys) == disappeared

\* a key of the current list is deleted from the disappeared dict
RemoveReappeared(disappeared, current_keys) ==
    [k \in DOMAIN disappeared \ current_keys |-> disappeared[k]]

ResetDisappearedMutant(disappeared, current_symbols, t) == disappeared

\* every disappeared entry of a symbol of the current list restarts its 5 s
ResetDisappeared(disappeared, current_symbols, t) ==
    [k \in DOMAIN disappeared |->
        IF disappeared[k].opportunity.symbol \in current_symbols
        THEN [disappeared[k] EXCEPT !.disappeared_at = t]
        ELSE disappeared[k]]

\* UIManager.update_opportunities(opportunities) at time t
UpdateOpportunities(u, list, t) ==
    LET acc == UiLoop(list, 1,
                   [occurrences |-> PruneOccurrences(u.occurrences, t),
                    tracking |-> u.tracking], t)
        current_keys == ListKeys(list)
        held == HoldExpired(u.disappeared, acc.tracking, current_keys, u.opportunities, t)
    IN UiState(list,
               DropExpiredTracking(acc.tracking, current_keys, t),
               acc.occurrences,
               ResetDisappeared(
                   RemoveReappeared(PurgeDisappeared(held, t), current_keys),
                   ListSymbols(list), t))

\* the keys of a dict as a list (the model does not keep the insertion order)
RECURSIVE KeyList(_)
KeyList(keys) ==
    IF keys = {} THEN <<>>
    ELSE LET k == CHOOSE x \in keys : TRUE
         IN <<k>> \o KeyList(keys \ {k})

StillShownMutant(disappeared, t) ==
    LET keys == KeyList({k \in DOMAIN disappeared :
                            t - disappeared[k].disappeared_at < DisplayDelaySeconds})
    IN [i \in 1..Len(keys) |-> disappeared[keys[i]].opportunity]

\* the disappeared opportunities _fill_opportunities still shows at time t
StillShown(disappeared, t) ==
    LET keys == KeyList({k \in DOMAIN disappeared :
                            t - disappeared[k].disappeared_at <= DisplayDelaySeconds})
    IN [i \in 1..Len(keys) |-> disappeared[keys[i]].opportunity]

\* one row of create_opportunities_table: the key, the UI duration and the
\* number of occurrences of the symbol in the last 15 minutes
TableRow(opp, u, t) ==
    [key |-> OpportunityKey(opp),
     spread_pct |-> opp.spread_pct,
     duration |-> IF OpportunityKey(opp) \in DOMAIN u.tracking
                  THEN t - u.tracking[OpportunityKey(opp)].ui_duration_start
                  ELSE 0,
     occurrence_count |->
         IF opp.symbol \in DOMAIN u.occurrences
         THEN Len(SelectSeq(u.occurrences[opp.symbol],
                            LAMBDA ts : ts > t - OccurrenceWindowMinutes * 60))
         ELSE 0]

\* _fill_opportunities at time t: the rows of the table, best spread first
FillOpportunities(u, t) ==
    LET display == SortDesc(u.opportunities \o StillShown(u.disappeared, t))
        shown == SubSeq(display, 1,
                        IF Len(display) < DisplayLimit THEN Len(display) ELSE DisplayLimit)
    IN [i \in 1..Len(shown) |-> TableRow(shown[i], u, t)]

-----------------------------------------------------------------------------
(* Actions *)

NoCallback == [kind |-> "none"]

\* an adapter delivers an orderbook update of `venue`
OrderbookCallback(venue, symbol, orderbook) ==
    /\ an_idx = 0
    /\ venue \in Range(cfg.exchanges)
    /\ LET r == OrderbookCallbackOf(venue, symbol, orderbook, orderbook_queue, stats, now)
       IN /\ orderbook_queue' = r.queue
          /\ stats' = r.stats
          /\ last_cb' = [kind |-> "orderbook", venue |-> venue, symbol |-> symbol,
                         data |-> orderbook]
    /\ frame' = None
    /\ UNCHANGED uiState
    /\ n_events' = n_events + 1
    /\ UNCHANGED auxVars
    /\ UNCHANGED <<cfg, now, loop_exchange, ticker_queue, orderbooks, orderbook_timestamps,
                   tickers, ticker_timestamps, anVars>>

\* an adapter delivers a ticker of `venue`; rate is ticker.funding_rate, a number or None
TickerCallback(venue, symbol, rate) ==
    /\ an_idx = 0
    /\ venue \in Range(cfg.exchanges)
    /\ LET ticker == [symbol |-> symbol, funding_rate |-> rate]
           r == TickerCallbackOf(venue, symbol, ticker, ticker_queue, stats, now)
       IN /\ ticker_queue' = r.queue
          /\ stats' = r.stats
          /\ last_cb' = [kind |-> "ticker", venue |-> venue, symbol |-> symbol,
                         data |-> ticker]
    /\ frame' = None
    /\ UNCHANGED uiState
    /\ n_events' = n_events + 1
    /\ UNCHANGED auxVars
    /\ UNCHANGED <<cfg, now, loop_exchange, orderbook_queue, orderbooks, orderbook_timestamps,
                   tickers, ticker_timestamps, anVars>>

\* one iteration of DataProcessor._process_loop between two sleeps
ProcessLoop ==
    /\ an_idx = 0
    /\ orderbook_queue # <<>> \/ ticker_queue # <<>>
    /\ LET ob == ProcessItems(TakeBatch(orderbook_queue),
                     [data |-> orderbooks, timestamps |-> orderbook_timestamps])
           tk == ProcessItems(TakeBatch(ticker_queue),
                     [data |-> tickers, timestamps |-> ticker_timestamps])
       IN /\ orderbooks' = ob.data
          /\ orderbook_timestamps' = ob.timestamps
          /\ tickers' = tk.data
          /\ ticker_timestamps' = tk.timestamps
    /\ orderbook_queue' = RestAfterBatch(orderbook_queue)
    /\ ticker_queue' = RestAfterBatch(ticker_queue)
    /\ frame' = None
    /\ UNCHANGED uiState
    /\ last_cb' = NoCallback
    /\ UNCHANGED auxVars
    /\ UNCHANGED <<cfg, now, loop_exchange, stats, n_events, anVars>>

\* time passes
Tick(d) ==
    /\ now + d <= MaxTime
    /\ now' = now + d
    /\ frame' = None
    /\ UNCHANGED uiState
    /\ last_cb' = NoCallback
    /\ UNCHANGED auxVars
    /\ UNCHANGED <<cfg, loop_exchange, orderbook_queue, ticker_queue, stats, orderbooks,
                   orderbook_timestamps, tickers, ticker_timestamps, n_events, anVars>>

\* _analysis_loop: the body of `for symbol in self.config.symbols` for the next symbol
AnalysisSymbol ==
    /\ an_idx < Len(cfg.symbols)
    /\ LET symbol == cfg.symbols[an_idx + 1]
           obs == GatherOrderbooks(cfg.exchanges, symbol)
           first == an_idx = 0
           t0 == IF first
                 THEN [n |-> tick.n + 1, at |-> now, keys |-> {}, found |-> {}, expired |-> {},
                       prev_keys |-> tick.keys, prev_opps |-> opportunities]
                 ELSE [tick EXCEPT !.at = now]
           sp == CalculateSpreads(symbol, obs)
           r == FindOpportunities(sp, GatherFunding(symbol), opportunities, of_stats,
                                  scroller, now)
       IN IF Len(obs) < 2
          THEN /\ tick' = t0
               /\ all_opportunities' = IF first THEN <<>> ELSE all_opportunities
               /\ symbol_spreads' = IF first THEN <<>> ELSE symbol_spreads
               /\ UNCHANGED <<opportunities, of_stats, calc_in, spreads, returned, scroller>>
          ELSE /\ opportunities' = r.opportunities
               /\ scroller' = r.scroller
               /\ of_stats' = r.stats
               /\ all_opportunities' = (IF first THEN <<>> ELSE all_opportunities) \o r.result
               /\ symbol_spreads' = (symbol :> BestSpreadPct(sp))
                                        @@ (IF first THEN <<>> ELSE symbol_spreads)
               /\ calc_in' = obs
               /\ spreads' = sp
               /\ returned' = r.result
               /\ tick' = [t0 EXCEPT !.keys = @ \cup r.keys,
                                     !.found = @ \cup r.created,
                                     !.expired = @ \cup r.expired]
    /\ an_idx' = an_idx + 1
    /\ frame' = None
    /\ UNCHANGED uiState
    /\ last_cb' = NoCallback
    /\ UNCHANGED auxRest
    /\ UNCHANGED <<cfg, now, loop_exchange, orderbook_queue, ticker_queue, stats, orderbooks,
                   orderbook_timestamps, tickers, ticker_timestamps, n_events, calc_arg>>

\* what the calls of update_opportunities so far had in their lists, per key:
\* present, the time of the last call with the key; gone, the time of the first
\* call without it since then (None while it is present); absent, the time of the
\* last call without it
HistoryAfter(h, list, t) ==
    [k \in DOMAIN h \cup ListKeys(list) |->
        IF k \in ListKeys(list)
        THEN [present |-> Some(t), gone |-> None,
              absent |-> IF k \in DOMAIN h THEN h[k].absent ELSE None]
        ELSE [present |-> h[k].present,
              gone |-> IF IsNone(h[k].gone) THEN Some(t) ELSE h[k].gone,
              absent |-> Some(t)]]

\* the ArbitrageOpportunity objects of the list handed to update_opportunities as
\* the call leaves them: UIManager reads their key, symbol and spread_pct and
\* assigns to none of their fields
ObjectsAfterUpdateMutant(list, u, t) ==
    [i \in 1..Len(list) |->
        [list[i] EXCEPT !.first_seen = u.tracking[OpportunityKey(list[i])].ui_duration_start,
                        !.duration_seconds =
                            t - u.tracking[OpportunityKey(list[i])].ui_duration_start]]

ObjectsAfterUpdate(list, u, t) == list

\* OpportunityFinder.opportunities seen through the objects it shares with the
\* list: an opportunity of the map whose key is in the list is the list's object
SharedObjects(opps, objects) ==
    [k \in DOMAIN opps |->
        IF k \in ListKeys(objects)
        THEN objects[CHOOSE i \in 1..Len(objects) : OpportunityKey(objects[i]) = k]
        ELSE opps[k]]

CurrentUi ==
    UiState(ui_opportunities, ui_opportunity_tracking, symbol_occurrence_timestamps,
            disappeared_opportunities)

\* _analysis_loop: after the last symbol, _update_ui(all_opportunities, ...) and the sleep
AnalysisEnd ==
    /\ an_idx = Len(cfg.symbols)
    /\ an_idx' = 0
    /\ LET u == UpdateOpportunities(CurrentUi, all_opportunities, now)
       IN /\ ui_opportunities' = u.opportunities
          /\ ui_opportunity_tracking' = u.tracking
          /\ symbol_occurrence_timestamps' = u.occurrences
          /\ disappeared_opportunities' = u.disappeared
          /\ ui_history' = HistoryAfter(ui_history, u.opportunities, now)
          /\ opportunities' =
                 SharedObjects(opportunities, ObjectsAfterUpdate(all_opportunities, u, now))
    /\ frame' = None
    /\ last_cb' = NoCallback
    /\ UNCHANGED auxVars
    /\ UNCHANGED <<cfg, now, loop_exchange, orderbook_queue, ticker_queue, stats, orderbooks,
                   orderbook_timestamps, tickers, ticker_timestamps, n_events,
                   of_stats, all_opportunities, symbol_spreads,
                   calc_arg, calc_in, spreads, returned, tick>>

\* UIManager.update_opportunities called with a list
UiUpdate(list) ==
    /\ an_idx = 0
    /\ LET u == UpdateOpportunities(CurrentUi, list, now)
       IN /\ ui_opportunities' = u.opportunities
          /\ ui_opportunity_tracking' = u.tracking
          /\ symbol_occurrence_timestamps' = u.occurrences
          /\ disappeared_opportunities' = u.disappeared
          /\ ui_history' = HistoryAfter(ui_history, u.opportunities, now)
    /\ frame' = None
    /\ last_cb' = NoCallback
    /\ UNCHANGED auxVars
    /\ UNCHANGED <<cfg, now, loop_exchange, orderbook_queue, ticker_queue, stats, orderbooks,
                   orderbook_timestamps, tickers, ticker_timestamps, n_events, anVars>>

\* one iteration of UIManager.update_loop: _generate_layout() fills the table
Render ==
    /\ an_idx = 0
    /\ frame' = Some([at |-> now, rows |-> FillOpportunities(CurrentUi, now)])
    /\ last_cb' = NoCallback
    /\ UNCHANGED auxVars
    /\ UNCHANGED <<cfg, now, loop_exchange, orderbook_queue, ticker_queue, stats, orderbooks,
                   orderbook_timestamps, tickers, ticker_timestamps, n_events, anVars,
                   uiState>>

\* time passes, up to the time limit of a display specification
Elapse(d, limit) ==
    /\ now + d <= limit
    /\ now' = now + d
    /\ frame' = None
    /\ last_cb' = NoCallback
    /\ UNCHANGED auxVars
    /\ UNCHANGED <<cfg, loop_exchange, orderbook_queue, ticker_queue, stats, orderbooks,
                   orderbook_timestamps, tickers, ticker_timestamps, n_events, anVars,
                   uiState>>

\* SpreadCalculator.calculate_spreads called on its own
CalcStep(symbol) ==
    /\ ~IsNone(calc_arg)
    /\ calc_in' = Val(calc_arg)
    /\ spreads' = CalculateSpreads(symbol, Val(calc_arg))
    /\ calc_arg' = None
    /\ frame' = None
    /\ UNCHANGED uiState
    /\ last_cb' = NoCallback
    /\ UNCHANGED auxVars
    /\ UNCHANGED <<cfg, now, loop_exchange, orderbook_queue, ticker_queue, stats, orderbooks,
                   orderbook_timestamps, tickers, ticker_timestamps, n_events,
                   opportunities, of_stats, an_idx, all_opportunities, symbol_spreads,
                   returned, tick>>

-----------------------------------------------------------------------------
(* The display's orderbook and ticker snapshots: _update_ui and update_orderbook_data *)

\* UIManager.__init__ and ArbitrageOrchestrator.last_ui_update_time; the two times start
\* at 0, the epoch, which is longer ago than any interval: None here
NewUiData ==
    [orderbook_data_timestamps |-> <<>>,
     ticker_data_timestamps |-> <<>>,
     cached_orderbook_data |-> <<>>,
     cached_ticker_data |-> <<>>,
     last_price_update_time |-> None,
     last_ui_update_time |-> None]

\* _update_ui: orderbook_data / ticker_data, whatever get_orderbook / get_ticker return
\* for the configured venues and symbols
CollectData(store) ==
    [k \in {k \in StoreKeys : /\ k[1] \in Range(cfg.exchanges)
                              /\ k[2] \in Range(cfg.symbols)
                              /\ ~IsNone(store[k])} |-> Val(store[k])]

\* update_orderbook_data: every entry of the data handed over is stamped with the
\* current time
StampData(timestamps, data, t) ==
    [k \in DOMAIN timestamps \cup DOMAIN data |->
        IF k \in DOMAIN data THEN t ELSE timestamps[k]]

\* UIManager._cleanup_stale_data
CleanupStaleData(timestamps, t) ==
    [k \in {k \in DOMAIN timestamps : ~(t - timestamps[k] > DataTimeoutSeconds)} |->
        timestamps[k]]

\* UIManager._filter_stale_data
FilterStaleData(data, timestamps, t) ==
    [k \in {k \in DOMAIN data : /\ k \in DOMAIN timestamps
                                /\ t - timestamps[k] <= DataTimeoutSeconds} |-> data[k]]

\* now - last >= interval
IntervalOver(last, interval, t) == IsNone(last) \/ t - Val(last) >= interval

\* UIManager.update_orderbook_data(orderbook_data, ticker_data=ticker_data, ...)
UpdateOrderbookData(u, orderbook_data, ticker_data, t) ==
    LET ob_ts == CleanupStaleData(StampData(u.orderbook_data_timestamps, orderbook_data, t), t)
        tk_ts == CleanupStaleData(StampData(u.ticker_data_timestamps, ticker_data, t), t)
        stamped == [u EXCEPT !.orderbook_data_timestamps = ob_ts,
                             !.ticker_data_timestamps = tk_ts]
    IN IF IntervalOver(u.last_price_update_time, PriceUpdateInterval, t)
       THEN [stamped EXCEPT
                !.cached_orderbook_data = FilterStaleData(orderbook_data, ob_ts, t),
                !.cached_ticker_data = FilterStaleData(ticker_data, tk_ts, t),
                !.last_price_update_time = Some(t)]
       ELSE stamped

\* _update_ui: the block under `if should_update_data`
UpdateUiData(u, t) ==
    IF IntervalOver(u.last_ui_update_time, UiUpdateInterval, t)
    THEN [UpdateOrderbookData(u, CollectData(orderbooks), CollectData(tickers), t)
             EXCEPT !.last_ui_update_time = Some(t)]
    ELSE u

\* ArbitrageOrchestrator._update_ui(list, ...): update_opportunities and the data refresh
UpdateUi(list) ==
    /\ an_idx = 0
    /\ LET u == UpdateOpportunities(CurrentUi, list, now)
       IN /\ ui_opportunities' = u.opportunities
          /\ ui_opportunity_tracking' = u.tracking
          /\ symbol_occurrence_timestamps' = u.occurrences
          /\ disappeared_opportunities' = u.disappeared
          /\ ui_history' = HistoryAfter(ui_history, u.opportunities, now)
    /\ ui_data' = UpdateUiData(ui_data, now)
    /\ frame' = None
    /\ last_cb' = NoCallback
    /\ UNCHANGED <<scroller, orch, processing_errors, extVars>>
    /\ UNCHANGED <<cfg, now, loop_exchange, orderbook_queue, ticker_queue, stats, orderbooks,
                   orderbook_timestamps, tickers, ticker_timestamps, n_events, anVars>>

-----------------------------------------------------------------------------
(* ArbitrageOrchestrator.start / stop, DataReceiver.cleanup and the two loop tasks *)

\* ArbitrageOrchestrator.__init__: not running, no adapter registered, no task
NewOrchestrator ==
    [running |-> FALSE,
     pc |-> "new",               \* new, config_failed, connecting, started, start_failed,
                                 \* cleanup, stopped
     debug_enabled |-> FALSE,    \* self.debug.is_debug_enabled()
     connect |-> <<>>,           \* venue -> pending / ok / failed, the result of connect_adapter
     adapters |-> <<>>,          \* DataReceiver.adapters, in the order of registration
     subscribed |-> FALSE,       \* subscribe_all has registered the callbacks
     process_task |-> "none",    \* DataProcessor.process_task
     ui_live |-> FALSE,          \* UIManager.start has run
     analysis_task |-> "none",   \* tasks[0]: _analysis_loop
     ui_update_task |-> "none",  \* tasks[1]: UIManager.update_loop
     start_error |-> None,       \* the venues named by the exception _init_adapters raised
     cleanup_todo |-> <<>>,      \* cleanup: the adapters the for loop has not reached
     disconnect_log |-> <<>>,    \* history: venue, outcome and duration of every disconnect
     debug_messages |-> 0,       \* history: calls of UIManager.add_debug_message
     loop_errors |-> 0,          \* history: loop iterations that raised
     last_raised |-> "none",     \* history: the loop whose iteration raised last
     recorded |-> <<>>,          \* history: the lists _analysis_loop handed to a history recorder
     flushed |-> FALSE,          \* history: stop() has stopped a history recorder
     start_calls |-> 0]          \* history: calls of start()

LifecycleUnchanged ==
    /\ frame' = None
    /\ last_cb' = NoCallback
    /\ UNCHANGED <<scroller, processing_errors, ui_data, extVars>>
    /\ UNCHANGED <<cfg, loop_exchange, orderbook_queue, ticker_queue, stats, orderbooks,
                   orderbook_timestamps, tickers, ticker_timestamps, n_events, anVars,
                   uiState>>

\* ConfigManager.validate: venues and symbols are configured, and at least two venues
Validate(config) ==
    /\ config.exchanges # <<>>
    /\ config.symbols # <<>>
    /\ Len(config.exchanges) >= 2

\* start() up to the gather of _init_adapters: returns at once when already running,
\* raises on an invalid configuration, else every configured venue gets a connect task
StartCall ==
    /\ orch.pc \in {"new", "config_failed", "start_failed", "started"}
    /\ orch.start_calls < MaxStartCalls
    /\ orch' = IF orch.running
               THEN [orch EXCEPT !.start_calls = @ + 1]
               ELSE IF ~Validate(cfg)
               THEN [orch EXCEPT !.start_calls = @ + 1,
                                 !.pc = "config_failed"]
               ELSE [orch EXCEPT !.start_calls = @ + 1,
                                 !.running = TRUE,
                                 !.pc = "connecting",
                                 !.connect = [v \in Range(cfg.exchanges) |-> "pending"]]
    /\ UNCHANGED now
    /\ LifecycleUnchanged

\* connect_adapter(exchange, adapter): registers the adapter only when connect() returned
ConnectAdapter(venue, ok) ==
    /\ orch.pc = "connecting"
    /\ venue \in DOMAIN orch.connect
    /\ orch.connect[venue] = "pending"
    /\ orch' = [orch EXCEPT !.connect[venue] = IF ok THEN "ok" ELSE "failed",
                            !.adapters = IF ok THEN Append(@, venue) ELSE @]
    /\ UNCHANGED now
    /\ LifecycleUnchanged

\* failed_exchanges of _init_adapters
FailedExchangesMutant(connect) == {}
FailedExchanges(connect) == {v \in DOMAIN connect : connect[v] = "failed"}

\* the rest of start() once the gather has returned: raise, or steps 2 to 7
StartRest ==
    /\ orch.pc = "connecting"
    /\ \A v \in DOMAIN orch.connect : orch.connect[v] # "pending"
    /\ orch' = IF FailedExchanges(orch.connect) # {}
               THEN [orch EXCEPT !.pc = "start_failed",
                                 !.start_error = Some(FailedExchanges(orch.connect))]
               ELSE [orch EXCEPT !.pc = "started",
                                 !.subscribed = TRUE,
                                 !.process_task = "running",
                                 !.ui_live = TRUE,
                                 !.analysis_task = "running",
                                 !.ui_update_task = "running"]
    /\ UNCHANGED now
    /\ LifecycleUnchanged

Cancelled(task) == IF task = "running" THEN "cancelled" ELSE task

\* stop() up to the call of DataReceiver.cleanup
StopCall ==
    /\ orch.running
    /\ orch.pc \in {"started", "start_failed"}
    /\ orch' = [orch EXCEPT !.running = FALSE,
                            !.analysis_task = Cancelled(@),
                            !.ui_update_task = Cancelled(@),
                            !.process_task = Cancelled(@),
                            !.ui_live = FALSE,
                            !.pc = IF orch.adapters = <<>> THEN "stopped" ELSE "cleanup",
                            !.cleanup_todo = orch.adapters]
    /\ UNCHANGED now
    /\ LifecycleUnchanged

\* how one `await asyncio.wait_for(adapter.disconnect(), timeout=3.0)` can end, and after
\* how many seconds
DisconnectOutcomes ==
    {[outcome |-> o, seconds |-> d] : o \in {"ok", "error"}, d \in 0..(DisconnectTimeout - 1)}
        \cup {[outcome |-> "timeout", seconds |-> DisconnectTimeout]}

\* the adapters cleanup still visits after a disconnect that ended with `outcome`
CleanupRestMutant(todo, outcome) == IF outcome = "ok" THEN Tail(todo) ELSE <<>>
CleanupRest(todo, outcome) == Tail(todo)

\* one pass of the for loop of cleanup
Disconnect(r) ==
    /\ orch.pc = "cleanup"
    /\ orch.cleanup_todo # <<>>
    /\ LET rest == CleanupRest(orch.cleanup_todo, r.outcome)
       IN orch' = [orch EXCEPT !.cleanup_todo = rest,
                               !.disconnect_log =
                                    Append(@, [venue |-> Head(orch.cleanup_todo),
                                               outcome |-> r.outcome,
                                               seconds |-> r.seconds]),
                               !.pc = IF rest = <<>> THEN "stopped" ELSE "cleanup"]
    /\ now' = now + r.seconds
    /\ LifecycleUnchanged

\* the task and the messages after an iteration of _analysis_loop raised
AnalysisLoopExceptMutant(o) == [o EXCEPT !.analysis_task = "ended"]
AnalysisLoopExcept(o) ==
    [o EXCEPT !.debug_messages = IF o.debug_enabled THEN @ + 1 ELSE @]

\* the task and the messages after an iteration of UIManager.update_loop raised
UpdateLoopExceptMutant(o) == [o EXCEPT !.ui_update_task = "ended"]
UpdateLoopExcept(o) == [o EXCEPT !.debug_messages = @ + 1]

\* an iteration of _analysis_loop raises
AnalysisLoopError ==
    /\ orch.running
    /\ orch.analysis_task = "running"
    /\ orch.loop_errors < MaxLoopErrors
    /\ orch' = [AnalysisLoopExcept(orch) EXCEPT !.loop_errors = @ + 1,
                                               !.last_raised = "analysis"]
    /\ UNCHANGED now
    /\ LifecycleUnchanged

\* an iteration of UIManager.update_loop raises
UpdateLoopError ==
    /\ orch.ui_live
    /\ orch.ui_update_task = "running"
    /\ orch.loop_errors < MaxLoopErrors
    /\ orch' = [UpdateLoopExcept(orch) EXCEPT !.loop_errors = @ + 1,
                                             !.last_raised = "ui"]
    /\ UNCHANGED now
    /\ LifecycleUnchanged

-----------------------------------------------------------------------------
(* DataProcessor on items of any shape: the except branch of _process_loop *)

ItemKeys == {"exchange", "symbol", "data", "timestamp"}

\* `orderbook.best_bid and orderbook.best_ask` raises AttributeError
ScrollerCheckRaises(orderbook) ==
    \/ "best_bid" \notin DOMAIN orderbook
    \/ /\ ~IsNone(orderbook.best_bid)
       /\ "best_ask" \notin DOMAIN orderbook

\* _process_orderbook(item): the store after the call and whether it raised; the four
\* item[...] reads come first, then the two writes, then the scroller block, whose
\* own try covers only the call of print_orderbook_update
ProcessOrderbook(item, store, sc) ==
    IF ~(ItemKeys \subseteq DOMAIN item)
    THEN [store |-> store, raised |-> TRUE]
    ELSE [store |-> ProcessItem(item, store),
          raised |-> ~IsNone(sc) /\ ScrollerCheckRaises(item.data)]

\* the scroller after the scroller block of _process_orderbook(item) at time t:
\* a call with a keyword the method does not accept raises TypeError inside the
\* block's try, which drops it
ScrollOrderbook(item, sc, t) ==
    IF IsNone(sc) THEN sc
    ELSE IF ~(ItemKeys \subseteq DOMAIN item) THEN sc
    ELSE IF ScrollerCheckRaises(item.data) THEN sc
    ELSE IF IsNone(item.data.best_bid) \/ IsNone(item.data.best_ask) THEN sc
    ELSE IF ~(ProcessorKeywords \subseteq PrintOrderbookParams) THEN sc
    ELSE Some(PrintOrderbookUpdate(Val(sc), item.exchange, item.symbol,
                                   Val(item.data.best_bid).price,
                                   Val(item.data.best_ask).price, t))

\* _process_ticker(item)
ProcessTicker(item, store) ==
    IF ~(ItemKeys \subseteq DOMAIN item)
    THEN [store |-> store, raised |-> TRUE]
    ELSE [store |-> ProcessItem(item, store), raised |-> FALSE]

\* the inner while loop over the orderbook queue q with its except branch, from
\* orderbook_count = count on: get_nowait removes the item; an item that raises
\* counts one processing error and leaves orderbook_count as it is
RECURSIVE ProcessOrderbooks(_, _, _, _, _, _)
ProcessOrderbooks(q, count, store, errors, sc, t) ==
    IF q = <<>> \/ count >= BatchLimit
    THEN [store |-> store, errors |-> errors, rest |-> q, scroller |-> sc]
    ELSE LET r == ProcessOrderbook(Head(q), store, sc)
             s == ScrollOrderbook(Head(q), sc, t)
         IN IF r.raised
            THEN ProcessOrderbooks(Tail(q), count, r.store, errors + 1, s, t)
            ELSE ProcessOrderbooks(Tail(q), count + 1, r.store, errors, s, t)

\* the inner while loop over the ticker queue, the same way
RECURSIVE ProcessTickers(_, _, _, _)
ProcessTickers(q, count, store, errors) ==
    IF q = <<>> \/ count >= BatchLimit
    THEN [store |-> store, errors |-> errors, rest |-> q]
    ELSE LET r == ProcessTicker(Head(q), store)
         IN IF r.raised
            THEN ProcessTickers(Tail(q), count, r.store, errors + 1)
            ELSE ProcessTickers(Tail(q), count + 1, r.store, errors)

\* one iteration of DataProcessor._process_loop between two sleeps, errors included
ProcessLoopAny ==
    /\ an_idx = 0
    /\ orderbook_queue # <<>> \/ ticker_queue # <<>>
    /\ LET ob == ProcessOrderbooks(orderbook_queue, 0,
                     [data |-> orderbooks, timestamps |-> orderbook_timestamps],
                     processing_errors, scroller, now)
           tk == ProcessTickers(ticker_queue, 0,
                     [data |-> tickers, timestamps |-> ticker_timestamps], 0)
       IN /\ orderbooks' = ob.store.data
          /\ orderbook_timestamps' = ob.store.timestamps
          /\ tickers' = tk.store.data
          /\ ticker_timestamps' = tk.store.timestamps
          /\ processing_errors' = ob.errors + tk.errors
          /\ orderbook_queue' = ob.rest
          /\ ticker_queue' = tk.rest
          /\ scroller' = ob.scroller
    /\ frame' = None
    /\ UNCHANGED uiState
    /\ last_cb' = NoCallback
    /\ UNCHANGED <<orch, ui_data, extVars>>
    /\ UNCHANGED <<cfg, now, loop_exchange, stats, n_events, anVars>>

\* orderbook_queue.put_nowait(item) / ticker_queue.put_nowait(item) by a producer
PutItem(kind, item) ==
    /\ an_idx = 0
    /\ IF kind = "orderbook"
       THEN /\ ~QueueFull(orderbook_queue, cfg.orderbook_queue_size)
            /\ orderbook_queue' = Append(orderbook_queue, item)
            /\ UNCHANGED ticker_queue
       ELSE /\ ~QueueFull(ticker_queue, cfg.ticker_queue_size)
            /\ ticker_queue' = Append(ticker_queue, item)
            /\ UNCHANGED orderbook_queue
    /\ n_events' = n_events + 1
    /\ frame' = None
    /\ UNCHANGED uiState
    /\ last_cb' = NoCallback
    /\ UNCHANGED auxVars
    /\ UNCHANGED <<cfg, now, loop_exchange, stats, orderbooks, orderbook_timestamps,
                   tickers, ticker_timestamps, anVars>>

\* a producer puts n items on one queue in a row, the first nbad of them dicts
\* without 'timestamp'
PutBurst(kind, n, nbad) ==
    /\ an_idx = 0
    /\ LET good == QueueItem("lighter", "BTC-USDC-PERP", Book("BTC-USDC-PERP",
                        Level(60000, 1), Level(60010, 1)), now)
           bad == [exchange |-> "lighter", symbol |-> "BTC-USDC-PERP",
                   data |-> Book("BTC-USDC-PERP", Level(60000, 1), Level(60010, 1))]
           items == [i \in 1..n |-> IF i <= nbad THEN bad ELSE good]
       IN IF kind = "orderbook"
          THEN /\ Len(orderbook_queue) + n <= cfg.orderbook_queue_size
               /\ orderbook_queue' = orderbook_queue \o items
               /\ UNCHANGED ticker_queue
          ELSE /\ Len(ticker_queue) + n <= cfg.ticker_queue_size
               /\ ticker_queue' = ticker_queue \o items
               /\ UNCHANGED orderbook_queue
    /\ n_events' = n_events + n
    /\ frame' = None
    /\ UNCHANGED uiState
    /\ last_cb' = NoCallback
    /\ UNCHANGED auxVars
    /\ UNCHANGED <<cfg, now, loop_exchange, stats, orderbooks, orderbook_timestamps,
                   tickers, ticker_timestamps, anVars>>

-----------------------------------------------------------------------------
(* The callbacks as subscribe_all hands them to the adapters: adapter-native *)
(* symbols and the two call shapes                                           *)

\* SimpleSymbolConverter.convert_to_exchange: the venue's own name of a canonical symbol
ConvertToExchange(std_symbol, venue) ==
    LET base == IF std_symbol = "BTC-USDC-PERP" THEN "BTC" ELSE "ETH"
    IN IF venue = "lighter" THEN base
       ELSE IF venue = "edgex" THEN base \o "USD"
       ELSE base \o "_USDC_PERP"

\* SimpleSymbolConverter.convert_from_exchange: the inverse mapping
ConvertFromExchange(symbol, venue) ==
    IF \E std \in SymbolUniverse : ConvertToExchange(std, venue) = symbol
    THEN CHOOSE std \in SymbolUniverse : ConvertToExchange(std, venue) = symbol
    ELSE symbol

\* lighter_orderbook_callback(orderbook)
LighterOrderbookArgs(args, q, st, t) ==
    IF Len(args) # 1 THEN [queue |-> q, stats |-> st]
    ELSE LighterOrderbookCallback(ConvertFromExchange(args[1].symbol, "lighter"),
                                  args[1], q, st, t)

\* lighter_ticker_callback(ticker)
LighterTickerArgs(args, q, st, t) ==
    IF Len(args) # 1 THEN [queue |-> q, stats |-> st]
    ELSE WatchedTickerCallback("lighter", ConvertFromExchange(args[1].symbol, "lighter"),
                               args[1], q, st, t)

\* edgex_orderbook_callback_wrapper(*args)
EdgexOrderbookCallbackWrapper(args, q, st, t) ==
    IF Len(args) = 1
    THEN EdgexOrderbookCallback(ConvertFromExchange(args[1].symbol, "edgex"),
                                args[1], q, st, t)
    ELSE IF Len(args) = 2
    THEN EdgexOrderbookCallback(ConvertFromExchange(args[1], "edgex"), args[2], q, st, t)
    ELSE [queue |-> q, stats |-> st]

\* edgex_ticker_callback_wrapper(*args)
EdgexTickerCallbackWrapper(args, q, st, t) ==
    IF Len(args) = 2
    THEN WatchedTickerCallback(loop_exchange, ConvertFromExchange(args[1], "edgex"),
                               args[2], q, st, t)
    ELSE [queue |-> q, stats |-> st]

\* the orderbook callback subscribe_all registered with the adapter of `venue`, called
\* with the positional arguments args; a call the callback's signature does not
\* take raises TypeError in the adapter and changes nothing
SubscribedOrderbookCallback(venue, args, q, st, t) ==
    IF venue = "lighter" THEN LighterOrderbookArgs(args, q, st, t)
    ELSE IF venue = "edgex" THEN EdgexOrderbookCallbackWrapper(args, q, st, t)
    ELSE IF Len(args) = 2 THEN StdOrderbookCallback(venue, args[1], args[2], q, st, t)
    ELSE [queue |-> q, stats |-> st]

SubscribedTickerCallback(venue, args, q, st, t) ==
    IF venue = "lighter" THEN LighterTickerArgs(args, q, st, t)
    ELSE IF venue = "edgex" THEN EdgexTickerCallbackWrapper(args, q, st, t)
    ELSE IF Len(args) = 2 THEN StdTickerCallback(venue, args[1], args[2], q, st, t)
    ELSE [queue |-> q, stats |-> st]

\* an adapter calls the callback it was given
AdapterCallback(kind, venue, args) ==
    /\ an_idx = 0
    /\ venue \in Range(cfg.exchanges)
    /\ IF kind = "orderbook"
       THEN LET r == SubscribedOrderbookCallback(venue, args, orderbook_queue, stats, now)
            IN /\ orderbook_queue' = r.queue
               /\ stats' = r.stats
               /\ UNCHANGED ticker_queue
       ELSE LET r == SubscribedTickerCallback(venue, args, ticker_queue, stats, now)
            IN /\ ticker_queue' = r.queue
               /\ stats' = r.stats
               /\ UNCHANGED orderbook_queue
    /\ last_cb' = [kind |-> kind, venue |-> venue, args |-> args]
    /\ frame' = None
    /\ UNCHANGED uiState
    /\ n_events' = n_events + 1
    /\ UNCHANGED auxVars
    /\ UNCHANGED <<cfg, now, loop_exchange, orderbooks, orderbook_timestamps,
                   tickers, ticker_timestamps, anVars>>

-----------------------------------------------------------------------------
(* OpportunityFinder called directly: find_opportunities and clear, and a second
   finder that is given the same calls in one instant *)

\* OpportunityFinder.__init__ (scroller=None); at is the time of the second
\* finder's calls, calls the number of calls made so far
NewFinder ==
    [opportunities |-> <<>>,
     stats |-> [opportunities_found |-> 0, opportunities_expired |-> 0],
     returned |-> <<>>,
     at |-> 0,
     calls |-> 0]

\* find_opportunities(spreads, funding_rates) on both finders: the first at time
\* now, the second at time rt
FindCall(sp, funding_rates, rt) ==
    /\ LET r == FindOpportunities(sp, funding_rates, opportunities, of_stats, scroller, now)
           q == FindOpportunities(sp, funding_rates, replica.opportunities, replica.stats,
                                  None, rt)
       IN /\ opportunities' = r.opportunities
          /\ of_stats' = r.stats
          /\ scroller' = r.scroller
          /\ returned' = r.result
          /\ replica' = [opportunities |-> q.opportunities, stats |-> q.stats,
                         returned |-> q.result, at |-> rt, calls |-> replica.calls + 1]
    /\ spreads' = sp
    /\ frame' = None
    /\ last_cb' = NoCallback
    /\ UNCHANGED <<orch, processing_errors, ui_data, retry>>
    /\ UNCHANGED <<cfg, now, loop_exchange, orderbook_queue, ticker_queue, stats, orderbooks,
                   orderbook_timestamps, tickers, ticker_timestamps, n_events,
                   an_idx, all_opportunities, symbol_spreads, calc_arg, calc_in, tick,
                   uiState>>

\* OpportunityFinder.clear() on both finders
Clear ==
    /\ opportunities' = <<>>
    /\ replica' = [replica EXCEPT !.opportunities = <<>>, !.calls = @ + 1]
    /\ frame' = None
    /\ last_cb' = NoCallback
    /\ UNCHANGED <<scroller, orch, processing_errors, ui_data, retry>>
    /\ UNCHANGED <<cfg, now, loop_exchange, orderbook_queue, ticker_queue, stats, orderbooks,
                   orderbook_timestamps, tickers, ticker_timestamps, n_events,
                   of_stats, an_idx, all_opportunities, symbol_spreads, calc_arg, calc_in,
                   spreads, returned, tick, uiState>>

-----------------------------------------------------------------------------
(* query_retry (edgex_rest): one call of the wrapper around a coroutine func *)

\* the decorated coroutine before its first call; tenacity is TENACITY_AVAILABLE
NewRetry(tenacity, reraise, max_attempts) ==
    [tenacity |-> tenacity,
     reraise |-> reraise,
     max_attempts |-> max_attempts,
     pc |-> "call",              \* call, sleep, or done
     attempts |-> 0,             \* history: calls of func so far
     outcomes |-> <<>>,          \* history: what each call of func did
     result |-> "pending"]       \* value, default_return, or raise

\* what one call of func can do: return, raise an exception of exception_type,
\* raise another Exception
FuncOutcomes == {"return", "matching", "other"}

\* the wrapper under @retry of tenacity, after the call of func number n: the
\* inner wrapper catches every Exception and returns default_return unless
\* reraise; tenacity calls again only when the inner wrapper raised a matching
\* exception and n < max_attempts
TenacityAfter(r, outcome, n) ==
    IF outcome = "return" THEN [r EXCEPT !.pc = "done", !.result = "value"]
    ELSE IF ~r.reraise THEN [r EXCEPT !.pc = "done", !.result = "default_return"]
    ELSE IF outcome = "matching" /\ n < r.max_attempts THEN [r EXCEPT !.pc = "sleep"]
    ELSE [r EXCEPT !.pc = "done", !.result = "raise"]

\* the built-in wrapper after the call of func number n (attempt = n)
FallbackAfter(r, outcome, n) ==
    IF outcome = "return" THEN [r EXCEPT !.pc = "done", !.result = "value"]
    ELSE IF outcome = "other" THEN [r EXCEPT !.pc = "done", !.result = "raise"]
    ELSE IF n < r.max_attempts THEN [r EXCEPT !.pc = "sleep"]
    ELSE IF r.reraise THEN [r EXCEPT !.pc = "done", !.result = "raise"]
    ELSE [r EXCEPT !.pc = "done", !.result = "default_return"]

RetryUnchanged ==
    /\ frame' = None
    /\ last_cb' = NoCallback
    /\ UNCHANGED <<scroller, orch, processing_errors, ui_data, replica>>
    /\ UNCHANGED <<cfg, now, loop_exchange, orderbook_queue, ticker_queue, stats, orderbooks,
                   orderbook_timestamps, tickers, ticker_timestamps, n_events, anVars,
                   uiState>>

\* the wrapper awaits func(*args, **kwargs) once and handles what it did
RetryAttempt(outcome) ==
    /\ retry.pc = "call"
    /\ LET n == retry.attempts + 1
           r == [retry EXCEPT !.attempts = n, !.outcomes = Append(@, outcome)]
       IN retry' = IF retry.tenacity THEN TenacityAfter(r, outcome, n)
                   ELSE FallbackAfter(r, outcome, n)
    /\ RetryUnchanged

\* the wait between two attempts is over
RetryWake ==
    /\ retry.pc = "sleep"
    /\ retry' = [retry EXCEPT !.pc = "call"]
    /\ RetryUnchanged

\* the second finder unused, no wrapped coroutine called (a call with
\* max_attempts = 0 of the built-in wrapper returns default_return at once)
InitExt ==
    /\ replica = NewFinder
    /\ retry = [NewRetry(FALSE, FALSE, 0) EXCEPT !.pc = "done", !.result = "default_return"]

-----------------------------------------------------------------------------
(* The ingestion and processing stages: three venues, one watched symbol *)

PipeBooks ==
    { Book("BTC-USDC-PERP", Level(60000, 1), Level(60010, 1)),   \* sane
      Book("BTC-USDC-PERP", Level(60060, 1), Level(60050, 1)),   \* bid >= ask
      Book("BTC-USDC-PERP", Level(60000, 0), Level(60010, 1)),   \* size <= 0
      Book("BTC-USDC-PERP", Level(0, 1), Level(60010, 1)),       \* price <= 0
      Book("BTC-USDC-PERP", None, Level(60010, 1)) }             \* a side missing

PipeRates == {Some(1)}

PipeClockSteps == {DataTimeoutSeconds + 1}

InitStore == [k \in StoreKeys |-> None]

InitPipeVars ==
    /\ orderbook_queue = <<>>
    /\ ticker_queue = <<>>
    /\ stats = [orderbook_received |-> 0, orderbook_dropped |-> 0,
                ticker_received |-> 0, ticker_dropped |-> 0]
    /\ orderbooks = InitStore
    /\ orderbook_timestamps = InitStore
    /\ tickers = InitStore
    /\ ticker_timestamps = InitStore
    /\ n_events = 0
    /\ last_cb = NoCallback

InitAnalysisLoop ==
    /\ opportunities = <<>>
    /\ of_stats = [opportunities_found |-> 0, opportunities_expired |-> 0]
    /\ an_idx = 0
    /\ all_opportunities = <<>>
    /\ symbol_spreads = <<>>
    /\ calc_in = <<>>
    /\ spreads = <<>>
    /\ returned = <<>>
    /\ tick = [n |-> 0, at |-> 0, keys |-> {}, found |-> {}, expired |-> {},
               prev_keys |-> {}, prev_opps |-> <<>>]

InitAnVars ==
    /\ InitAnalysisLoop
    /\ calc_arg = None

\* UIManager.__init__
InitUi ==
    /\ ui_opportunities = <<>>
    /\ ui_opportunity_tracking = <<>>
    /\ symbol_occurrence_timestamps = <<>>
    /\ disappeared_opportunities = <<>>
    /\ ui_history = <<>>
    /\ frame = None

\* an OpportunityFinder built without scroller (scroller=None), the orchestrator not started
InitAux ==
    /\ scroller = None
    /\ orch = NewOrchestrator
    /\ processing_errors = 0
    /\ ui_data = NewUiData
    /\ InitExt

Init ==
    /\ cfg = [exchanges |-> <<"edgex", "lighter", "backpack">>,
              symbols |-> <<"BTC-USDC-PERP">>,
              orderbook_queue_size |-> QueueCap,
              ticker_queue_size |-> TickerCap,
              min_spread_pct |-> PctScale \div 10]
    /\ now = 0
    /\ loop_exchange \in Range(cfg.exchanges)
    /\ InitPipeVars
    /\ InitAnVars
    /\ InitUi
    /\ InitAux

Next ==
    \/ /\ n_events < MaxEvents
       /\ \E venue \in ExchangeUniverse, book \in PipeBooks :
              OrderbookCallback(venue, book.symbol, [book EXCEPT !.uid = n_events + 1])
    \/ /\ n_events < MaxEvents
       /\ \E venue \in ExchangeUniverse, rate \in PipeRates :
              TickerCallback(venue, "BTC-USDC-PERP", rate)
    \/ ProcessLoop
    \/ \E d \in PipeClockSteps : Tick(d)

Spec == Init /\ [][Next]_vars

-----------------------------------------------------------------------------
(* The analysis loop over the state store: two venues, two watched symbols *)

MaxAnEvents == 4    \* adapter callbacks in one behaviour
MaxTicks == 2       \* iterations of the analysis loop in one behaviour

BookA(sym) == Book(sym, Level(60000, 1), Level(60010, 1))
BookB(sym) == Book(sym, Level(60050, 1), Level(60060, 1))
BookC(sym) == Book(sym, Level(60080, 1), Level(60090, 1))

\* lighter quotes the low book; backpack a book 0.0666% or a book 0.1166% above it
AnBooks(venue) ==
    IF venue = "lighter" THEN {BookA(sym) : sym \in SymbolUniverse}
    ELSE {BookB(sym) : sym \in SymbolUniverse} \cup {BookC(sym) : sym \in SymbolUniverse}

AnalysisConfig ==
    /\ cfg = [exchanges |-> <<"lighter", "backpack">>,
              symbols |-> <<"BTC-USDC-PERP", "ETH-USDC-PERP">>,
              orderbook_queue_size |-> QueueCap,
              ticker_queue_size |-> TickerCap,
              min_spread_pct |-> PctScale \div 10]
    /\ now = 0
    /\ loop_exchange = "backpack"

InitAnalysis ==
    /\ AnalysisConfig
    /\ InitPipeVars
    /\ InitAnVars
    /\ InitUi
    /\ InitAux

NextAnalysis ==
    \/ /\ n_events < MaxAnEvents
       /\ \E venue \in ExchangeUniverse : \E book \in AnBooks(venue) :
              OrderbookCallback(venue, book.symbol, book)
    \/ ProcessLoop
    \/ /\ an_idx = 0 => tick.n < MaxTicks
       /\ AnalysisSymbol
    \/ AnalysisEnd
    \/ \E d \in PipeClockSteps : Tick(d)

SpecAnalysis == InitAnalysis /\ [][NextAnalysis]_vars

(* The store between the processing loop and one analysis tick *)

MaxStoreEvents == 3     \* adapter callbacks in one behaviour
MaxStoreTicks == 1      \* iterations of the analysis loop in one behaviour

NextStore ==
    \/ /\ n_events < MaxStoreEvents
       /\ \E venue \in ExchangeUniverse : \E book \in AnBooks(venue) :
              OrderbookCallback(venue, book.symbol, book)
    \/ ProcessLoop
    \/ /\ an_idx = 0 => tick.n < MaxStoreTicks
       /\ AnalysisSymbol
    \/ AnalysisEnd
    \/ \E d \in PipeClockSteps : Tick(d)

SpecStore == InitAnalysis /\ [][NextStore]_vars

-----------------------------------------------------------------------------
(* calculate_spreads as a function of its input: up to MaxVenues venues in any
   order, each with a sane or an insane book *)

MaxVenues == 3

CalcVenues == {"A", "B", "C", "D"}

CalcBooks ==
    { BookA("BTC-USDC-PERP"), BookB("BTC-USDC-PERP"), BookC("BTC-USDC-PERP"),
      Book("BTC-USDC-PERP", Level(60060, 1), Level(60050, 1)),
      Book("BTC-USDC-PERP", Level(60050, 1), Level(60050, 1)),
      Book("BTC-USDC-PERP", Level(60080, 0), Level(60090, 1)),
      Book("BTC-USDC-PERP", Level(0, 1), Level(60010, 1)),
      Book("BTC-USDC-PERP", Level(60080, 1), None) }

\* a dict of n entries: distinct venues in insertion order, one book each
CalcInputs(n) ==
    {obs \in [1..n -> CalcVenues \X CalcBooks] :
        \A i, j \in 1..n : i # j => obs[i][1] # obs[j][1]}

InitCalc ==
    /\ AnalysisConfig
    /\ InitPipeVars
    /\ InitAnalysisLoop
    /\ InitUi
    /\ InitAux
    /\ \E n \in 0..MaxVenues : calc_arg \in {Some(obs) : obs \in CalcInputs(n)}

NextCalc == CalcStep("BTC-USDC-PERP")

SpecCalc == InitCalc /\ [][NextCalc]_vars

-----------------------------------------------------------------------------
(* The whole pipeline with its display: two venues, two watched symbols whose
   best spreads differ, the analysis loop feeding the UIManager *)

MaxDisplayEvents == 4   \* adapter callbacks in one behaviour
MaxDisplayTicks == 2    \* iterations of the analysis loop in one behaviour
MaxDisplayTime == 1     \* the clock stops here; it starts when the adapters are done

BookD(sym) == Book(sym, Level(60100, 1), Level(60110, 1))

\* lighter quotes the low book; backpack quotes BTC 0.1166% and ETH 0.1499% above it
DisplayBooks(venue) ==
    IF venue = "lighter" THEN {BookA(sym) : sym \in SymbolUniverse}
    ELSE {BookC("BTC-USDC-PERP"), BookD("ETH-USDC-PERP")}

NextDisplay ==
    \/ /\ n_events < MaxDisplayEvents
       /\ \E venue \in ExchangeUniverse : \E book \in DisplayBooks(venue) :
              OrderbookCallback(venue, book.symbol, book)
    \/ ProcessLoop
    \/ /\ an_idx = 0 => tick.n < MaxDisplayTicks
       /\ AnalysisSymbol
    \/ AnalysisEnd
    \/ Render
    \/ /\ n_events = MaxDisplayEvents
       /\ orderbook_queue = <<>>
       /\ Elapse(1, MaxDisplayTime)

SpecDisplay == InitAnalysis /\ [][NextDisplay]_vars

-----------------------------------------------------------------------------
(* Funding rates in the analysis loop: two venues quoting one symbol with a
   qualifying spread, tickers with and without a funding rate *)

MaxFundingEvents == 5   \* adapter callbacks in one behaviour
MaxFundingTicks == 2    \* iterations of the analysis loop in one behaviour

FundingBooks(venue) ==
    IF venue = "lighter" THEN {BookA("BTC-USDC-PERP")} ELSE {BookC("BTC-USDC-PERP")}

\* TickerData.funding_rate is Optional
FundingRates == {None, Some(1), Some(3)}

NextFunding ==
    \/ /\ n_events < MaxFundingEvents
       /\ \E venue \in ExchangeUniverse : \E book \in FundingBooks(venue) :
              OrderbookCallback(venue, book.symbol, book)
    \/ /\ n_events < MaxFundingEvents
       /\ \E venue \in ExchangeUniverse, rate \in FundingRates :
              TickerCallback(venue, "BTC-USDC-PERP", rate)
    \/ ProcessLoop
    \/ /\ an_idx = 0 => tick.n < MaxFundingTicks
       /\ AnalysisSymbol
    \/ AnalysisEnd

SpecFunding == InitAnalysis /\ [][NextFunding]_vars

-----------------------------------------------------------------------------
(* The display state on its own: update_opportunities called with the lists the
   analysis loop can pass, a frame rendered at any time, the clock in seconds *)

MaxUiTime == 5      \* the clock stops here

\* the Opportunity the finder creates for buying on lighter and selling on ex_s
UiOpportunity(symbol, ex_s, book_s) ==
    UpsertOpportunity(<<>>, Direction(symbol, "lighter", BookA(symbol), ex_s, book_s)[1], 0)

\* two keys of one symbol
UiOpportunities ==
    { UiOpportunity("BTC-USDC-PERP", "backpack", BookC("BTC-USDC-PERP")),
      UiOpportunity("BTC-USDC-PERP", "edgex", BookD("BTC-USDC-PERP")) }

UiLists == {SortDesc(KeyList(S)) : S \in SUBSET UiOpportunities}

NextUI ==
    \/ \E list \in UiLists : UiUpdate(list)
    \/ Render
    \/ Elapse(1, MaxUiTime)

SpecUI == InitAnalysis /\ [][NextUI]_vars

(* The display of a symbol that has one key only, over a longer time *)

MaxHoldTime == 8    \* the clock stops here

LoneOpportunity == UiOpportunity("ETH-USDC-PERP", "backpack", BookC("ETH-USDC-PERP"))

NextHold ==
    \/ \E list \in {<<>>, <<LoneOpportunity>>} : UiUpdate(list)
    \/ Render
    \/ Elapse(1, MaxHoldTime)

SpecHold == InitAnalysis /\ [][NextHold]_vars

(* The display of one key over the 15 minutes of the occurrence window: the
   clock goes in steps of WindowStep seconds up to the length of the window and
   in seconds after it *)

MaxWindowTime == 901    \* the clock stops here
WindowStep == 100       \* seconds per step of the clock inside the window

\* the next step of the clock: WindowStep, never past the end of the window
WindowElapse ==
    LET window == OccurrenceWindowMinutes * 60
    IN IF now + WindowStep <= window THEN WindowStep
       ELSE IF now < window THEN window - now
       ELSE 1

NextWindow ==
    \/ \E list \in {<<>>, <<LoneOpportunity>>} : UiUpdate(list)
    \/ Render
    \/ Elapse(WindowElapse, MaxWindowTime)

SpecWindow == InitAnalysis /\ [][NextWindow]_vars

(* The analysis loop of a finder that has the orchestrator's RealtimeScroller *)

MaxScrollerEvents == 3  \* adapter callbacks in one behaviour
MaxScrollerTicks == 2   \* iterations of the analysis loop in one behaviour
MaxScrollerTime == 2    \* the clock stops here

InitScroller ==
    /\ AnalysisConfig
    /\ InitPipeVars
    /\ InitAnVars
    /\ InitUi
    /\ scroller = Some(NewScroller)
    /\ orch = NewOrchestrator
    /\ processing_errors = 0
    /\ ui_data = NewUiData
    /\ InitExt

NextScroller ==
    \/ /\ n_events < MaxScrollerEvents
       /\ \E venue \in ExchangeUniverse : \E book \in AnBooks(venue) :
              OrderbookCallback(venue, book.symbol, book)
    \/ ProcessLoop
    \/ /\ an_idx = 0 => tick.n < MaxScrollerTicks
       /\ AnalysisSymbol
    \/ AnalysisEnd
    \/ Elapse(1, MaxScrollerTime)

SpecScroller == InitScroller /\ [][NextScroller]_vars

-----------------------------------------------------------------------------
(* Starts and one stop of the orchestrator over three venues, or over one venue only *)

\* the venue lists of the configuration: one that validates and one that does not
LifecycleExchanges == {<<"edgex", "lighter", "backpack">>, <<"edgex">>}

InitLifecycle ==
    /\ \E ex \in LifecycleExchanges :
        cfg = [exchanges |-> ex,
              symbols |-> <<"BTC-USDC-PERP">>,
              orderbook_queue_size |-> QueueCap,
              ticker_queue_size |-> TickerCap,
              min_spread_pct |-> PctScale \div 10]
    /\ now = 0
    /\ loop_exchange = "backpack"
    /\ InitPipeVars
    /\ InitAnVars
    /\ InitUi
    /\ scroller = None
    /\ \E d \in BOOLEAN : orch = [NewOrchestrator EXCEPT !.debug_enabled = d]
    /\ processing_errors = 0
    /\ ui_data = NewUiData
    /\ InitExt

DisconnectNext == \E r \in DisconnectOutcomes : Disconnect(r)

NextLifecycle ==
    \/ StartCall
    \/ \E venue \in ExchangeUniverse, ok \in BOOLEAN : ConnectAdapter(venue, ok)
    \/ StartRest
    \/ AnalysisLoopError
    \/ UpdateLoopError
    \/ StopCall
    \/ DisconnectNext

\* the event loop runs the cleanup coroutine on: every wait_for returns
SpecLifecycle == InitLifecycle /\ [][NextLifecycle]_vars /\ WF_vars(DisconnectNext)

-----------------------------------------------------------------------------
(* The subscribed callbacks: three venues, one of two symbols watched *)

MaxIngestEvents == 3    \* adapter callbacks in one behaviour

\* what the adapter of a venue can deliver: its name of either symbol with a sane
\* book, and its name of the watched symbol with a book that fails the sanity check
IngestBooks(venue) ==
    {Book(ConvertToExchange(sym, venue), Level(60000, 1), Level(60010, 1)) :
         sym \in SymbolUniverse}
      \cup {Book(ConvertToExchange("BTC-USDC-PERP", venue), None, Level(60010, 1)),
            Book(ConvertToExchange("BTC-USDC-PERP", venue), Level(0, 1), Level(60010, 1))}

IngestTickers(venue) ==
    {[symbol |-> ConvertToExchange(sym, venue), funding_rate |-> Some(1)] :
         sym \in SymbolUniverse}

\* the one-argument and the two-argument call with a payload
CallShapes(payload) == {<<payload>>, <<payload.symbol, payload>>}

NextIngest ==
    \/ /\ n_events < MaxIngestEvents
       /\ \E venue \in ExchangeUniverse : \E book \in IngestBooks(venue) :
              \E args \in CallShapes(book) : AdapterCallback("orderbook", venue, args)
    \/ /\ n_events < MaxIngestEvents
       /\ \E venue \in ExchangeUniverse : \E ticker \in IngestTickers(venue) :
              \E args \in CallShapes(ticker) : AdapterCallback("ticker", venue, args)
    \/ ProcessLoop

SpecIngest == Init /\ [][NextIngest]_vars

-----------------------------------------------------------------------------
(* The display's data refresh over a store that ages: two venues, one symbol, *)
(* the same book on both, so that every analysis iteration ends with          *)
(* _update_ui([])                                                             *)

MaxStaleEvents == 3     \* adapter callbacks in one behaviour
MaxStaleTime == 62      \* the clock stops here; it moves in steps of 31 s

InitStale ==
    /\ cfg = [exchanges |-> <<"lighter", "backpack">>,
              symbols |-> <<"BTC-USDC-PERP">>,
              orderbook_queue_size |-> QueueCap,
              ticker_queue_size |-> TickerCap,
              min_spread_pct |-> PctScale \div 10]
    /\ now = 0
    /\ loop_exchange = "backpack"
    /\ InitPipeVars
    /\ InitAnVars
    /\ InitUi
    /\ InitAux

NextStale ==
    \/ /\ n_events < MaxStaleEvents
       /\ \E venue \in {"lighter", "backpack"} :
              OrderbookCallback(venue, "BTC-USDC-PERP", BookA("BTC-USDC-PERP"))
    \/ /\ n_events < MaxStaleEvents
       /\ \E venue \in {"lighter", "backpack"} :
              TickerCallback(venue, "BTC-USDC-PERP", Some(1))
    \/ ProcessLoop
    \/ UpdateUi(<<>>)
    \/ Elapse(DataTimeoutSeconds + 1, MaxStaleTime)

SpecStale == InitStale /\ [][NextStale]_vars

-----------------------------------------------------------------------------
(* The processing loop over well-formed and malformed items *)

MaxProcEvents == 3      \* items put on the queues in one behaviour

\* a dict without 'timestamp'; a payload that is no OrderBookData; two sane items
ProcItems(t) ==
    { [exchange |-> "lighter", symbol |-> "BTC-USDC-PERP", data |-> BookA("BTC-USDC-PERP")],
      QueueItem("lighter", "BTC-USDC-PERP", [symbol |-> "BTC-USDC-PERP"], t),
      QueueItem("lighter", "BTC-USDC-PERP", BookA("BTC-USDC-PERP"), t),
      QueueItem("backpack", "BTC-USDC-PERP", BookB("BTC-USDC-PERP"), t) }

InitProcess ==
    /\ cfg = [exchanges |-> <<"lighter", "backpack">>,
              symbols |-> <<"BTC-USDC-PERP">>,
              orderbook_queue_size |-> MaxProcEvents,
              ticker_queue_size |-> TickerCap,
              min_spread_pct |-> PctScale \div 10]
    /\ now = 0
    /\ loop_exchange = "backpack"
    /\ InitPipeVars
    /\ InitAnVars
    /\ InitUi
    /\ scroller \in {None, Some(NewScroller)}
    /\ orch = NewOrchestrator
    /\ processing_errors = 0
    /\ ui_data = NewUiData
    /\ InitExt

NextProcess ==
    \/ /\ n_events < MaxProcEvents
       /\ \E kind \in {"orderbook", "ticker"}, item \in ProcItems(now) : PutItem(kind, item)
    \/ ProcessLoopAny
    \/ Elapse(1, MaxProcEvents)

SpecProcess == InitProcess /\ [][NextProcess]_vars

-----------------------------------------------------------------------------
(* Two finders given the same calls: one symbol, three directions *)

MaxFinderCalls == 2     \* calls of find_opportunities and clear in one behaviour
MaxFinderSpreads == 2   \* longest list of spreads handed to find_opportunities
MaxFinderTime == 1      \* the clock stops here

\* a SpreadData of BTC-USDC-PERP bought at 60000 and sold spread_abs higher
FinderSpread(ex_b, ex_s, spread_abs) ==
    SpreadData("BTC-USDC-PERP", ex_b, ex_s, Val(Level(60000, 1)),
               Val(Level(60000 + spread_abs, 1)), spread_abs, SpreadPct(spread_abs, 60000))

\* three directions: 0.15 % and 0.2 %, 0.15 %, and 0.05 % (below the threshold)
FinderSpreads ==
    { FinderSpread("edgex", "lighter", 90), FinderSpread("edgex", "lighter", 120),
      FinderSpread("backpack", "lighter", 90), FinderSpread("lighter", "edgex", 30) }

\* the lists of distinct spreads, in every order
FinderLists ==
    UNION { {l \in [1..n -> FinderSpreads] : \A i, j \in 1..n : l[i] = l[j] => i = j} :
            n \in 0..MaxFinderSpreads }

FinderRates == { <<>>, ("edgex" :> Some(1)) @@ ("lighter" :> Some(3)) }

InitFinder ==
    /\ cfg = [exchanges |-> <<"edgex", "lighter", "backpack">>,
              symbols |-> <<"BTC-USDC-PERP">>,
              orderbook_queue_size |-> QueueCap,
              ticker_queue_size |-> TickerCap,
              min_spread_pct |-> PctScale \div 10]
    /\ now = 0
    /\ loop_exchange = "backpack"
    /\ InitPipeVars
    /\ InitAnVars
    /\ InitUi
    /\ InitAux

NextFinder ==
    \/ /\ replica.calls < MaxFinderCalls
       /\ \E sp \in FinderLists, fr \in FinderRates : FindCall(sp, fr, replica.at)
    \/ /\ replica.calls < MaxFinderCalls
       /\ Clear
    \/ Elapse(1, MaxFinderTime)

SpecFinder == InitFinder /\ [][NextFinder]_vars

-----------------------------------------------------------------------------
(* One call of a coroutine wrapped by query_retry, with either wrapper *)

InitRetry ==
    /\ cfg = [exchanges |-> <<"edgex", "lighter", "backpack">>,
              symbols |-> <<"BTC-USDC-PERP">>,
              orderbook_queue_size |-> QueueCap,
              ticker_queue_size |-> TickerCap,
              min_spread_pct |-> PctScale \div 10]
    /\ now = 0
    /\ loop_exchange = "backpack"
    /\ InitPipeVars
    /\ InitAnVars
    /\ InitUi
    /\ scroller = None
    /\ orch = NewOrchestrator
    /\ processing_errors = 0
    /\ ui_data = NewUiData
    /\ replica = NewFinder
    /\ \E tenacity \in BOOLEAN, reraise \in BOOLEAN, m \in 1..MaxRetryAttempts :
           retry = NewRetry(tenacity, reraise, m)

NextRetry ==
    \/ \E outcome \in FuncOutcomes : RetryAttempt(outcome)
    \/ RetryWake

SpecRetry == InitRetry /\ [][NextRetry]_vars

-----------------------------------------------------------------------------
(* The processing loop on queues longer than one batch *)

MaxBacklog == 2         \* items a queue can hold beyond one batch
MaxBatchEvents == 104   \* items put on the queues in one behaviour

BurstSizes == {BatchLimit, BatchLimit + MaxBacklog}

InitBatch ==
    /\ cfg = [exchanges |-> <<"lighter", "backpack">>,
              symbols |-> <<"BTC-USDC-PERP">>,
              orderbook_queue_size |-> BatchLimit + MaxBacklog,
              ticker_queue_size |-> BatchLimit + MaxBacklog,
              min_spread_pct |-> PctScale \div 10]
    /\ now = 0
    /\ loop_exchange = "backpack"
    /\ InitPipeVars
    /\ InitAnVars
    /\ InitUi
    /\ scroller = Some(NewScroller)
    /\ orch = NewOrchestrator
    /\ processing_errors = 0
    /\ ui_data = NewUiData
    /\ InitExt

NextBatch ==
    \/ \E kind \in {"orderbook", "ticker"}, n \in BurstSizes, nbad \in 0..MaxBacklog :
           /\ n_events + n <= MaxBatchEvents
           /\ nbad <= n
           /\ PutBurst(kind, n, nbad)
    \/ ProcessLoopAny

SpecBatch == InitBatch /\ [][NextBatch]_vars

-----------------------------------------------------------------------------
(* Properties *)

Last(q) == q[Len(q)]

\* the step is an orderbook (ticker) callback with a sane quote of a watched
\* symbol, on a full queue
ValidOrderbookOnFull ==
    /\ last_cb'.kind = "orderbook"
    /\ ValidateOrderbook(last_cb'.data)
    /\ last_cb'.symbol \in Range(cfg.symbols)
    /\ QueueFull(orderbook_queue, cfg.orderbook_queue_size)

TickerOnFull ==
    /\ last_cb'.kind = "ticker"
    /\ last_cb'.symbol \in Range(cfg.symbols)
    /\ QueueFull(ticker_queue, cfg.ticker_queue_size)

\* C1: for every venue and both queues, a valid update received on a full queue
\* removes the oldest element, enqueues the new one as the newest, and raises
\* that queue's dropped counter by exactly one.
C1_DropOldestOnFull ==
    [][ /\ ValidOrderbookOnFull =>
              /\ Len(orderbook_queue') = Len(orderbook_queue)
              /\ orderbook_queue' = Append(Tail(orderbook_queue), Last(orderbook_queue'))
              /\ Last(orderbook_queue').data = last_cb'.data
              /\ stats'.orderbook_dropped = stats.orderbook_dropped + 1
        /\ TickerOnFull =>
              /\ Len(ticker_queue') = Len(ticker_queue)
              /\ ticker_queue' = Append(Tail(ticker_queue), Last(ticker_queue'))
              /\ Last(ticker_queue').data = last_cb'.data
              /\ stats'.ticker_dropped = stats.ticker_dropped + 1 ]_vars

\* C2: in every reachable state the orderbook queue holds at most
\* orderbook_queue_size elements and the ticker queue at most ticker_queue_size.
C2_QueuesWithinCapacity ==
    /\ Len(orderbook_queue) <= cfg.orderbook_queue_size
    /\ Len(ticker_queue) <= cfg.ticker_queue_size

\* an overflow has happened and the orderbook queue is full again
C2_Witness ==
    /\ Len(orderbook_queue) = cfg.orderbook_queue_size
    /\ stats.orderbook_dropped > 0
    /\ last_cb.kind = "orderbook"
    /\ last_cb.venue # "lighter"

\* C3: a quote that fails a sanity invariant never reaches the state store:
\* every stored orderbook has both sides, bid_price < ask_price, both sizes > 0
\* and bid_price > 0.
C3_StoreEntriesSane ==
    \A k \in StoreKeys :
        ~IsNone(orderbooks[k]) => ValidateOrderbook(Val(orderbooks[k]))

ItemKey(item) == <<item.exchange, item.symbol>>

\* the items of the orderbook queue before the step that are gone after it
LeftQueue ==
    {orderbook_queue[i] : i \in 1..Len(orderbook_queue)} \ Range(orderbook_queue')

\* C4: per (venue, symbol) the processor applies updates in the order they were
\* enqueued, and once an update has been processed the store holds it or a
\* later update of that key, never an earlier one.
C4_FifoPerKey ==
    [][ /\ \A i, j \in 1..Len(orderbook_queue') :
               i < j => orderbook_queue'[i].data.uid < orderbook_queue'[j].data.uid
        /\ \A k \in StoreKeys :
               /\ ~IsNone(orderbooks[k]) =>
                      /\ ~IsNone(orderbooks'[k])
                      /\ Val(orderbooks'[k]).uid >= Val(orderbooks[k]).uid
               /\ \A i \in 1..Len(orderbook_queue') :
                      (ItemKey(orderbook_queue'[i]) = k /\ ~IsNone(orderbooks'[k])) =>
                          Val(orderbooks'[k]).uid < orderbook_queue'[i].data.uid
               /\ n_events' = n_events =>
                      \A item \in LeftQueue :
                          ItemKey(item) = k =>
                              /\ ~IsNone(orderbooks'[k])
                              /\ Val(orderbooks'[k]).uid >= item.data.uid ]_vars

\* two updates of one key were enqueued and processed; the store holds the second
C4_Witness ==
    /\ n_events = 2
    /\ stats.orderbook_received = 2
    /\ orderbook_queue = <<>>
    /\ ~IsNone(orderbooks[<<"backpack", "BTC-USDC-PERP">>])
    /\ Val(orderbooks[<<"backpack", "BTC-USDC-PERP">>]).uid = 2
    /\ \A k \in StoreKeys \ {<<"backpack", "BTC-USDC-PERP">>} : IsNone(orderbooks[k])

AtTickEnd == an_idx = Len(cfg.symbols)

\* C5: a key with a qualifying spread in two consecutive analysis ticks keeps its
\* Opportunity (first_seen unchanged, last_seen not earlier, neither found nor
\* expired in the second tick), and a key is destroyed only by a tick that has no
\* qualifying spread for it.
C5_OpportunitySurvivesTicks ==
    AtTickEnd =>
        /\ \A k \in tick.keys \cap tick.prev_keys :
               /\ k \in DOMAIN tick.prev_opps
               /\ k \in DOMAIN opportunities
               /\ opportunities[k].first_seen = tick.prev_opps[k].first_seen
               /\ opportunities[k].last_seen >= tick.prev_opps[k].last_seen
               /\ k \notin tick.found
               /\ k \notin tick.expired
        /\ tick.expired \cap tick.keys = {}

\* C6: at the end of every analysis tick the map holds exactly the keys, over
\* all watched symbols, whose spread in that tick reached min_spread_pct.
C6_MapIsTickKeys ==
    AtTickEnd => DOMAIN opportunities = tick.keys

\* C7: after every find_opportunities call every Opportunity of the map and of
\* the returned list has spread_pct >= min_spread_pct and last_seen >= first_seen,
\* and no spread below min_spread_pct has an Opportunity.
C7_OpportunitiesAboveThreshold ==
    /\ \A k \in DOMAIN opportunities :
           /\ opportunities[k].spread_pct >= cfg.min_spread_pct
           /\ opportunities[k].last_seen >= opportunities[k].first_seen
    /\ \A i \in 1..Len(returned) :
           /\ returned[i].spread_pct >= cfg.min_spread_pct
           /\ returned[i].last_seen >= returned[i].first_seen
    /\ \A i \in 1..Len(spreads) :
           spreads[i].spread_pct < cfg.min_spread_pct =>
               SpreadKey(spreads[i]) \notin DOMAIN opportunities

\* a tick whose spread of 0.0666% ended an Opportunity and returned nothing
C7_Witness ==
    /\ \E i \in 1..Len(spreads) :
           /\ spreads[i].spread_pct = 666
           /\ SpreadKey(spreads[i]) \in tick.expired
    /\ returned = <<>>
    /\ opportunities = <<>>

\* C8: every Spread calculate_spreads returns has spread_pct > 0 and
\* price_sell > price_buy.
C8_SpreadsPositive ==
    \A i \in 1..Len(spreads) :
        /\ spreads[i].spread_pct > 0
        /\ spreads[i].price_sell > spreads[i].price_buy

\* three sane venues gave spreads in a direct call
C8_Witness ==
    /\ IsNone(calc_arg)
    /\ Len(calc_in) = 3
    /\ Len(spreads) >= 2

\* the directions calculate_spreads has to report for the input obs
ExpectedDirections(obs) ==
    { <<obs[a][1], obs[b][1], Val(obs[a][2].best_ask).price, Val(obs[b][2].best_bid).price>> :
        <<a, b>> \in
            { p \in (1..Len(obs)) \X (1..Len(obs)) :
                /\ p[1] # p[2]
                /\ ValidateOrderbook(obs[p[1]][2])
                /\ ValidateOrderbook(obs[p[2]][2])
                /\ Val(obs[p[2]][2].best_bid).price > Val(obs[p[1]][2].best_ask).price } }

SpreadDirection(s) == <<s.exchange_buy, s.exchange_sell, s.price_buy, s.price_sell>>

\* C9: calculate_spreads returns exactly one Spread for each ordered pair (A, B)
\* of distinct venues with both quotes valid and Bid(B) > Ask(A), carrying
\* venue_buy=A, venue_sell=B, price_buy=Ask(A), price_sell=Bid(B), and nothing else.
C9_OneSpreadPerDirection ==
    IsNone(calc_arg) =>
        /\ {SpreadDirection(spreads[i]) : i \in 1..Len(spreads)} = ExpectedDirections(calc_in)
        /\ \A i, j \in 1..Len(spreads) :
               SpreadDirection(spreads[i]) = SpreadDirection(spreads[j]) => i = j

\* A 60000/60010 and B 60050/60060 gave the single Spread buy=A, sell=B, 60010 -> 60050
C9_Witness ==
    /\ IsNone(calc_arg)
    /\ calc_in = << <<"A", BookA("BTC-USDC-PERP")>>, <<"B", BookB("BTC-USDC-PERP")>> >>
    /\ Len(spreads) = 1
    /\ SpreadDirection(spreads[1]) = <<"A", "B", 60010, 60050>>
    /\ spreads[1].spread_pct = 666

\* C10: a store entry older than the staleness cutoff contributes to no Spread
\* of the analysis loop.
C10_StaleEntryExcluded ==
    \A i \in 1..Len(spreads) :
        \A ex \in {spreads[i].exchange_buy, spreads[i].exchange_sell} :
            LET ts == orderbook_timestamps[<<ex, spreads[i].symbol>>]
            IN ~IsNone(ts) => tick.at - Val(ts) <= DataTimeoutSeconds

\* the venues of config.exchanges whose entry of the symbol the store holds
VenuesWithEntry(symbol) ==
    {e \in Range(cfg.exchanges) : ~IsNone(orderbooks[<<e, symbol>>])}

\* C11: every store entry is the payload and the timestamp of one single
\* processed update, never the payload of one update with the timestamp of
\* another, and an analysis tick reads the payloads of the entries as the store
\* holds them at that moment.
C11_EntryOfOneUpdate ==
    [][ /\ \A k \in StoreKeys :
               \/ /\ orderbooks'[k] = orderbooks[k]
                  /\ orderbook_timestamps'[k] = orderbook_timestamps[k]
               \/ \E i \in 1..Len(orderbook_queue) :
                      /\ ItemKey(orderbook_queue[i]) = k
                      /\ orderbooks'[k] = Some(orderbook_queue[i].data)
                      /\ orderbook_timestamps'[k] = Some(orderbook_queue[i].timestamp)
        /\ (an_idx' = an_idx + 1
               /\ Cardinality(VenuesWithEntry(cfg.symbols[an_idx + 1])) >= 2) =>
              /\ {calc_in'[i][1] : i \in 1..Len(calc_in')}
                     = VenuesWithEntry(cfg.symbols[an_idx + 1])
              /\ \A i \in 1..Len(calc_in') :
                     Some(calc_in'[i][2])
                        = orderbooks[<<calc_in'[i][1], cfg.symbols[an_idx + 1]>>] ]_vars

\* an analysis tick at time 31 has read a backpack entry written twice, at 0 and at 31
C11_Witness ==
    /\ tick.n >= 1
    /\ tick.at = MaxTime
    /\ stats.orderbook_received = 3
    /\ orderbook_queue = <<>>
    /\ orderbook_timestamps[<<"lighter", "BTC-USDC-PERP">>] = Some(0)
    /\ orderbook_timestamps[<<"backpack", "BTC-USDC-PERP">>] = Some(MaxTime)
    /\ orderbooks[<<"backpack", "BTC-USDC-PERP">>] = Some(BookC("BTC-USDC-PERP"))
    /\ \A k \in StoreKeys : k[2] = "ETH-USDC-PERP" => IsNone(orderbooks[k])
    /\ \E i \in 1..Len(calc_in) : calc_in[i] = <<"backpack", BookC("BTC-USDC-PERP")>>

\* a list in non-increasing order of spread_pct
SortedBySpread(list) ==
    \A i, j \in 1..Len(list) : i < j => list[i].spread_pct >= list[j].spread_pct

\* C12: the list the analysis loop passes to the display on each tick is in
\* non-increasing order of spread_pct over all symbols together.
C12_PassedListSorted ==
    /\ AtTickEnd => SortedBySpread(all_opportunities)
    /\ SortedBySpread(ui_opportunities)

\* funding_rate_diff is absent, or both rates are present and it is sell - buy
FundingDiffCurrent(opp) ==
    ~IsNone(opp.funding_rate_diff) =>
        /\ ~IsNone(opp.funding_rate_buy)
        /\ ~IsNone(opp.funding_rate_sell)
        /\ Val(opp.funding_rate_diff) = Val(opp.funding_rate_sell) - Val(opp.funding_rate_buy)

\* C13: after every find_opportunities call each tracked Opportunity has a
\* funding_rate_diff only if both its funding rates are currently present, and
\* then it equals funding_rate_sell - funding_rate_buy of those values.
C13_FundingDiffFromCurrentRates ==
    /\ \A k \in DOMAIN opportunities : FundingDiffCurrent(opportunities[k])
    /\ \A i \in 1..Len(returned) : FundingDiffCurrent(returned[i])

\* a step of update_opportunities that had an effect
UpdateStep == uiState' # uiState

\* when a call of update_opportunities last had the key in its list, or None
LastPresent(key) ==
    IF key \in DOMAIN ui_history THEN ui_history[key].present ELSE None

\* the row of a frame for a key, as a set (empty when the frame has none)
RowsOf(f, key) == {i \in 1..Len(f.rows) : f.rows[i].key = key}

\* C14: on a call of update_opportunities that has a key in its list, the key's
\* ui_duration_start stays what it was when the key was last in a list at most
\* 2 s ago, and is the time of the call otherwise; a frame shows for a key of the
\* current list the time since its ui_duration_start
C14_DurationTolerance ==
    [][/\ UpdateStep =>
            \A k \in ListKeys(ui_opportunities') :
                /\ k \in DOMAIN ui_opportunity_tracking'
                /\ IF ~IsNone(LastPresent(k)) /\ now - Val(LastPresent(k)) <= UiToleranceSeconds
                   THEN /\ k \in DOMAIN ui_opportunity_tracking
                        /\ ui_opportunity_tracking'[k].ui_duration_start =
                               ui_opportunity_tracking[k].ui_duration_start
                   ELSE ui_opportunity_tracking'[k].ui_duration_start = now
       /\ ~IsNone(frame') =>
            \A i \in 1..Len(Val(frame').rows) :
                Val(frame').rows[i].key \in ListKeys(ui_opportunities') =>
                    Val(frame').rows[i].duration =
                        Val(frame').at
                          - ui_opportunity_tracking'[Val(frame').rows[i].key].ui_duration_start
      ]_vars

\* a key in the lists since t = 0 except for the call at t = 1 is shown with 2 s at t = 2
C14_Witness ==
    /\ ~IsNone(frame)
    /\ Val(frame).at = 2
    /\ \E k \in ListKeys(ui_opportunities) :
        /\ ui_history[k].present = Some(2)
        /\ ui_history[k].absent = Some(1)
        /\ ui_opportunity_tracking[k].ui_duration_start = 0
        /\ \E i \in RowsOf(Val(frame), k) : Val(frame).rows[i].duration = 2

\* the keys that were in a list and have been missing from every call since
GoneKeys == {k \in DOMAIN ui_history : ~IsNone(ui_history[k].gone)}

\* C15: an Opportunity of a symbol with no other Opportunity, missing from the
\* lists since the call at time d, is in a frame exactly when the frame is
\* rendered less than 5 s after d (before t = 6 for d = 1)
C15_ShownLessThanFiveSeconds ==
    ~IsNone(frame) =>
        \A k \in GoneKeys :
            RowsOf(Val(frame), k) # {} <=>
                Val(frame).at - Val(ui_history[k].gone) < DisplayDelaySeconds

\* C15 as the code has it: the frame rendered exactly 5 s after d still has the row
C15_ShownUpToFiveSeconds ==
    ~IsNone(frame) =>
        \A k \in GoneKeys :
            RowsOf(Val(frame), k) # {} <=>
                Val(frame).at - Val(ui_history[k].gone) <= DisplayDelaySeconds

\* in the list at t = 0, missing since the call at t = 1, in the frame of t = 6
C15_Witness ==
    /\ ~IsNone(frame)
    /\ Val(frame).at = 6
    /\ \E k \in GoneKeys :
        /\ ui_history[k].present = Some(0)
        /\ ui_history[k].gone = Some(1)
        /\ RowsOf(Val(frame), k) # {}

\* the opportunities of the new list whose key the list before did not have
NewInList ==
    {i \in 1..Len(ui_opportunities') :
        OpportunityKey(ui_opportunities'[i]) \notin ListKeys(ui_opportunities)}

\* C16: a call of update_opportunities changes the disappeared_at of an entry it
\* keeps only when its list has a new Opportunity of the entry's symbol with
\* another key
C16_ResetOnlyByNewOpportunity ==
    [][UpdateStep =>
          \A k \in DOMAIN disappeared_opportunities \cap DOMAIN disappeared_opportunities' :
              disappeared_opportunities'[k].disappeared_at
                    # disappeared_opportunities[k].disappeared_at =>
                  \E i \in NewInList :
                      /\ ui_opportunities'[i].symbol =
                             disappeared_opportunities[k].opportunity.symbol
                      /\ OpportunityKey(ui_opportunities'[i]) # k
      ]_vars

\* C16 as the code has it: a call of update_opportunities sets the
\* disappeared_at of an entry it keeps to the time of the call when its list has
\* an Opportunity of the entry's symbol, new or not, and leaves it otherwise; an
\* entry leaves the dict only for a reappearance or more than 5 s after its
\* disappeared_at
C16_ResetByAnyOpportunity ==
    [][UpdateStep =>
          \A k \in DOMAIN disappeared_opportunities :
              IF k \in DOMAIN disappeared_opportunities'
              THEN disappeared_opportunities'[k].disappeared_at =
                      IF disappeared_opportunities[k].opportunity.symbol
                             \in ListSymbols(ui_opportunities')
                      THEN now
                      ELSE disappeared_opportunities[k].disappeared_at
              ELSE \/ k \in ListKeys(ui_opportunities')
                   \/ now - disappeared_opportunities[k].disappeared_at > DisplayDelaySeconds
      ]_vars

\* a held entry restarted by an Opportunity of its symbol that was in the lists
\* before the entry disappeared
C16_Witness ==
    \E k \in GoneKeys \cap DOMAIN disappeared_opportunities :
        /\ disappeared_opportunities[k].disappeared_at = now
        /\ Val(ui_history[k].gone) < now
        /\ \E i \in 1..Len(ui_opportunities) :
            LET other == OpportunityKey(ui_opportunities[i])
            IN /\ ui_opportunities[i].symbol = disappeared_opportunities[k].opportunity.symbol
               /\ ui_opportunity_tracking[other].ui_duration_start < Val(ui_history[k].gone)
               /\ ui_history[other].present = Some(now)

\* C17: no key is both in the current list and in the disappeared dict, and a
\* frame has at most one row for a key
C17_KeyShownOnce ==
    /\ ListKeys(ui_opportunities) \cap DOMAIN disappeared_opportunities = {}
    /\ ~IsNone(frame) =>
          \A i, j \in 1..Len(Val(frame).rows) :
              Val(frame).rows[i].key = Val(frame).rows[j].key => i = j

\* a key that was held and came back within the tolerance, in a frame once
C17_Witness ==
    /\ ~IsNone(frame)
    /\ \E k \in ListKeys(ui_opportunities) :
        /\ ~IsNone(ui_history[k].absent)
        /\ ui_opportunity_tracking[k].ui_duration_start < Val(ui_history[k].absent)
        /\ ui_history[k].present = Some(now)
        /\ Cardinality(RowsOf(Val(frame), k)) = 1

\* the symbols whose timestamp list the step appended the time of the call to
SymbolsRecorded ==
    {sym \in DOMAIN symbol_occurrence_timestamps' :
        /\ Last(symbol_occurrence_timestamps'[sym]) = now
        /\ \/ sym \notin DOMAIN symbol_occurrence_timestamps
           \/ Last(symbol_occurrence_timestamps[sym]) # now}

\* C18: a call of update_opportunities appends to a symbol's list of occurrence
\* timestamps only when its list has an Opportunity of the symbol that the list
\* before did not have
C18_OccurrenceOnlyForNewOpportunity ==
    [][UpdateStep =>
          \A sym \in SymbolsRecorded :
              \E i \in NewInList : ui_opportunities'[i].symbol = sym
      ]_vars

\* the entries of a list of timestamps that are at most 15 minutes old at time t
InWindow(list, t) == SelectSeq(list, LAMBDA ts : t - ts <= OccurrenceWindowMinutes * 60)

\* C19: an occurrence recorded at ts counts at time t exactly when t - ts <= 900 s:
\* a call of update_opportunities keeps the entries that are at most 900 s old,
\* and a row of a frame shows how many entries of its symbol are at most 900 s old
C19_CountedWithinWindow ==
    [][/\ UpdateStep =>
            \A sym \in DOMAIN symbol_occurrence_timestamps :
                \A i \in 1..Len(InWindow(symbol_occurrence_timestamps[sym], now)) :
                    /\ sym \in DOMAIN symbol_occurrence_timestamps'
                    /\ InWindow(symbol_occurrence_timestamps[sym], now)[i]
                           \in Range(symbol_occurrence_timestamps'[sym])
       /\ ~IsNone(frame') =>
            \A i \in 1..Len(Val(frame').rows) :
                LET sym == Val(frame').rows[i].key[1]
                IN Val(frame').rows[i].occurrence_count =
                       IF sym \in DOMAIN symbol_occurrence_timestamps'
                       THEN Len(InWindow(symbol_occurrence_timestamps'[sym], Val(frame').at))
                       ELSE 0
      ]_vars

\* C20: a call of update_opportunities and the rendering of a frame leave the
\* finder's map with the fields of its opportunities, the finder's counters and
\* the lists the finder returned as they were
C20_DisplayLeavesFinderAlone ==
    [][(UpdateStep \/ ~IsNone(frame')) =>
          /\ opportunities' = opportunities
          /\ of_stats' = of_stats
          /\ returned' = returned
          /\ all_opportunities' = all_opportunities
      ]_vars

\* a frame with rows after a tick that found opportunities and updated the display
C20_Witness ==
    /\ ~IsNone(frame)
    /\ Val(frame).rows # <<>>
    /\ ui_opportunities # <<>>
    /\ ui_opportunities = all_opportunities
    /\ DOMAIN ui_opportunity_tracking \cap DOMAIN opportunities # {}

\* the lines the step appended to the scroller (the deque is far from full)
NewLines ==
    IF IsNone(scroller) THEN {}
    ELSE {i \in 1..Len(Val(scroller').recent_messages) :
              i > Len(Val(scroller).recent_messages)}

\* C21: the finder appends a line only for an Opportunity it creates in that
\* call, at most one line for a creation, and no line in a call that only
\* updates Opportunities it already has
C21_LineOnlyForNewOpportunity ==
    [][\A i \in NewLines :
          LET line == Val(scroller').recent_messages[i]
          IN /\ line.key \notin DOMAIN opportunities
             /\ line.key \in DOMAIN opportunities'
             /\ \A j \in NewLines : Val(scroller').recent_messages[j].key = line.key => j = i
      ]_vars

\* the venues whose connect_adapter reported an error
FailedVenues == {v \in DOMAIN orch.connect : orch.connect[v] = "failed"}

\* nothing after _init_adapters has run: no callback subscribed, no processing task,
\* no UI, no analysis task, no display refresh task
NothingStarted ==
    /\ ~orch.subscribed
    /\ orch.process_task = "none"
    /\ ~orch.ui_live
    /\ orch.analysis_task = "none"
    /\ orch.ui_update_task = "none"

\* C22: once every connect was attempted and at least one failed, start() has
\* raised an error naming exactly the failed venues, and no later step of
\* start() has run or runs afterwards; no error is raised while a connect is pending
C22_FailedConnectAbortsStart ==
    /\ orch.pc = "connecting" => IsNone(orch.start_error) /\ NothingStarted
    /\ (orch.pc \notin {"new", "connecting"} /\ FailedVenues # {}) =>
           /\ orch.start_error = Some(FailedVenues)
           /\ NothingStarted
    /\ ~IsNone(orch.start_error) =>
           /\ \A v \in Range(cfg.exchanges) : orch.connect[v] \in {"ok", "failed"}
           /\ NothingStarted

\* two venues failed, one connected and was registered, and start() has raised
C22_Witness ==
    /\ orch.pc = "start_failed"
    /\ Cardinality(FailedVenues) = 2
    /\ Len(orch.adapters) = 1
    /\ orch.running

\* the disconnects cleanup has called on `venue`
DisconnectsOf(venue) ==
    {i \in 1..Len(orch.disconnect_log) : orch.disconnect_log[i].venue = venue}

\* C24: a stop() that reached cleanup ends; when it has ended, disconnect was
\* called exactly once on every registered adapter and on nothing else,
\* whatever the outcome of the other disconnects, and no disconnect took
\* longer than the 3 s timeout
C24_StopDisconnectsEveryAdapter ==
    /\ [](orch.pc = "stopped" =>
              \A v \in ExchangeUniverse :
                  Cardinality(DisconnectsOf(v)) = IF v \in Range(orch.adapters) THEN 1 ELSE 0)
    /\ [](\A i \in 1..Len(orch.disconnect_log) :
              orch.disconnect_log[i].seconds <= DisconnectTimeout)
    /\ [](\A v \in ExchangeUniverse :
              Cardinality(DisconnectsOf(v)) <= IF v \in Range(orch.adapters) THEN 1 ELSE 0)
    /\ ((orch.pc = "cleanup") ~> (orch.pc = "stopped"))

\* three adapters: the first disconnect timed out, the second failed, the third still happened
C24_Witness ==
    /\ orch.pc = "stopped"
    /\ Len(orch.disconnect_log) = 3
    /\ orch.disconnect_log[1].outcome = "timeout"
    /\ orch.disconnect_log[2].outcome = "error"
    /\ orch.disconnect_log[3].outcome = "ok"

\* the step is a loop iteration that raised
LoopErrorStep == orch'.loop_errors = orch.loop_errors + 1

\* after the step both loops are still the running tasks of a running system
LoopsGoOn ==
    /\ orch'.running
    /\ orch'.analysis_task = "running"
    /\ orch'.ui_update_task = "running"

C23_HistoryForwardedAndFlushed ==
    /\ an_idx = 0 => Len(orch.recorded) = tick.n
    /\ orch.pc = "stopped" => orch.flushed

\* the items of the batch whose processing raises / does not raise
RaisingOrderbook(item) ==
    ProcessOrderbook(item, [data |-> orderbooks, timestamps |-> orderbook_timestamps],
                     scroller).raised

RaisingTicker(item) ==
    ProcessTicker(item, [data |-> tickers, timestamps |-> ticker_timestamps]).raised

NotRaisingOrderbook(item) == ~RaisingOrderbook(item)
NotRaisingTicker(item) == ~RaisingTicker(item)

\* C26: an iteration of the processing loop counts one error for every item of
\* its batch that raised, and leaves both stores as if the batch had held only
\* the other items, in their order
C26_RaisingItemSkipped ==
    [][processing_errors' # processing_errors =>
          LET obs == TakeBatch(orderbook_queue)
              tks == TakeBatch(ticker_queue)
              ob == ProcessItems(SelectSeq(obs, NotRaisingOrderbook),
                        [data |-> orderbooks, timestamps |-> orderbook_timestamps])
              tk == ProcessItems(SelectSeq(tks, NotRaisingTicker),
                        [data |-> tickers, timestamps |-> ticker_timestamps])
          IN /\ processing_errors' = processing_errors
                    + Len(SelectSeq(obs, RaisingOrderbook))
                    + Len(SelectSeq(tks, RaisingTicker))
             /\ orderbooks' = ob.data
             /\ orderbook_timestamps' = ob.timestamps
             /\ tickers' = tk.data
             /\ ticker_timestamps' = tk.timestamps
             /\ orderbook_queue' = RestAfterBatch(orderbook_queue)
             /\ ticker_queue' = RestAfterBatch(ticker_queue)]_vars

\* the ingestion sanity check: a side is missing or a price is not positive
RejectedBySanityCheck(orderbook) ==
    \/ IsNone(orderbook.best_bid)
    \/ IsNone(orderbook.best_ask)
    \/ Val(orderbook.best_bid).price <= 0
    \/ Val(orderbook.best_ask).price <= 0

\* C27: a callback of any venue with an orderbook that fails the sanity check
\* enqueues nothing and adds one to orderbook_dropped
C27_RejectedCountsAsDropped ==
    [][(last_cb'.kind = "orderbook" /\ n_events' = n_events + 1
            /\ RejectedBySanityCheck(last_cb'.data)) =>
          /\ orderbook_queue' = orderbook_queue
          /\ stats'.orderbook_dropped = stats.orderbook_dropped + 1]_vars

\* the symbol of the payload the adapter delivered in the step
DeliveredSymbol == last_cb'.args[Len(last_cb'.args)].symbol

\* the entries of a queue after the step that were not in it before
NewEntries(q_before, q_after) == {e \in Range(q_after) : e \notin Range(q_before)}

\* C28: every entry of both queues carries a symbol of the watch list, and the
\* entry a callback adds carries the canonical symbol of the delivered
\* venue-native symbol
C28_QueuedSymbolCanonicalAndWatched ==
    [][/\ \A e \in Range(orderbook_queue') \cup Range(ticker_queue') :
              e.symbol \in Range(cfg.symbols)
       /\ n_events' = n_events + 1 =>
              \A e \in NewEntries(orderbook_queue, orderbook_queue')
                         \cup NewEntries(ticker_queue, ticker_queue') :
                  e.symbol = ConvertFromExchange(DeliveredSymbol, last_cb'.venue)]_vars

\* C29: on every reachable state of the queues and counters, the edgex callbacks
\* give the same queue and the same counters for (payload) and (symbol, payload)
C29_CallShapesEquivalent ==
    /\ \A book \in IngestBooks("edgex") :
           EdgexOrderbookCallbackWrapper(<<book>>, orderbook_queue, stats, now)
             = EdgexOrderbookCallbackWrapper(<<book.symbol, book>>, orderbook_queue, stats, now)
    /\ \A ticker \in IngestTickers("edgex") :
           EdgexTickerCallbackWrapper(<<ticker>>, ticker_queue, stats, now)
             = EdgexTickerCallbackWrapper(<<ticker.symbol, ticker>>, ticker_queue, stats, now)

\* the venue's last update of the key, as the processor holds it, is more than 30 s old
StaleInStore(timestamps, key) ==
    /\ ~IsNone(timestamps[key])
    /\ now - Val(timestamps[key]) > DataTimeoutSeconds

\* the step refreshed the display's cached snapshots
CacheRefreshStep == ui_data'.last_price_update_time = Some(now) /\ ui_data' # ui_data

\* C30: after a refresh of the cached snapshots, no key whose last venue update
\* is more than 30 s old is in the cached orderbook or ticker snapshot
C30_StaleEntryNotCached ==
    [][CacheRefreshStep =>
          \A key \in StoreKeys :
              /\ StaleInStore(orderbook_timestamps, key) =>
                     key \notin DOMAIN ui_data'.cached_orderbook_data
              /\ StaleInStore(ticker_timestamps, key) =>
                     key \notin DOMAIN ui_data'.cached_ticker_data]_vars

-----------------------------------------------------------------------------
(* C31: ties in the sorted list *)

\* the names of the model in the order of Python's string comparison
SortedNames == <<"BTC-USDC-PERP", "ETH-USDC-PERP", "backpack", "edgex", "lighter">>

NameRank(name) == CHOOSE i \in 1..Len(SortedNames) : SortedNames[i] = name

\* key k1 is not after key k2 in the lexicographic order of (symbol, buy, sell)
KeyNotAfter(k1, k2) ==
    \/ NameRank(k1[1]) < NameRank(k2[1])
    \/ /\ k1[1] = k2[1]
       /\ \/ NameRank(k1[2]) < NameRank(k2[2])
          \/ k1[2] = k2[2] /\ NameRank(k1[3]) <= NameRank(k2[3])

\* C31: in the list find_opportunities returned, two Opportunities with equal
\* spread_pct stand in the lexicographic order of their keys (symbol,
\* venue_buy, venue_sell), whatever the order of the spreads handed in
C31_TiesInKeyOrder ==
    \A i, j \in 1..Len(returned) :
        i < j /\ returned[i].spread_pct = returned[j].spread_pct
            => KeyNotAfter(OpportunityKey(returned[i]), OpportunityKey(returned[j]))

-----------------------------------------------------------------------------
(* C32: replay into a fresh finder *)

\* an ArbitrageOpportunity without first_seen, last_seen and duration_seconds
StripTime(opp) ==
    [symbol |-> opp.symbol, exchange_buy |-> opp.exchange_buy,
     exchange_sell |-> opp.exchange_sell,
     price_buy |-> opp.price_buy, price_sell |-> opp.price_sell,
     size_buy |-> opp.size_buy, size_sell |-> opp.size_sell,
     spread_pct |-> opp.spread_pct,
     funding_rate_buy |-> opp.funding_rate_buy,
     funding_rate_sell |-> opp.funding_rate_sell,
     funding_rate_diff |-> opp.funding_rate_diff]

StripTimes(list) == [i \in 1..Len(list) |-> StripTime(list[i])]

\* C32: two fresh finders given the same sequence of calls, at different
\* times, hold the same keys with the same fields,
\* returned the same list and have the same found / expired counters,
\* timestamps aside
C32_ReplayIdentical ==
    /\ DOMAIN replica.opportunities = DOMAIN opportunities
    /\ \A k \in DOMAIN opportunities :
           StripTime(replica.opportunities[k]) = StripTime(opportunities[k])
    /\ StripTimes(replica.returned) = StripTimes(returned)
    /\ replica.stats = of_stats

\* two calls were replayed, an Opportunity expired, one is held whose times
\* differ between the finders
C32_Witness ==
    /\ replica.calls >= 2
    /\ of_stats.opportunities_expired > 0
    /\ \E k \in DOMAIN opportunities :
           opportunities[k].last_seen # replica.opportunities[k].last_seen

-----------------------------------------------------------------------------
(* C39: the finder's counters and its map *)

\* get_stats()['active_opportunities']
ActiveOpportunities == Cardinality(DOMAIN opportunities)

\* C39: after any sequence of find_opportunities and clear calls,
\* opportunities_found - opportunities_expired is the number of Opportunities
\* in the map
C39_CountersMatchMap ==
    of_stats.opportunities_found - of_stats.opportunities_expired = ActiveOpportunities

-----------------------------------------------------------------------------
(* C33: the batch limit of the processing loop *)

\* the step is an iteration of the processing loop that took items
ProcessStep ==
    /\ Len(orderbook_queue') <= Len(orderbook_queue)
    /\ Len(ticker_queue') <= Len(ticker_queue)
    /\ Len(orderbook_queue') < Len(orderbook_queue) \/ Len(ticker_queue') < Len(ticker_queue)

\* C33: one iteration of the processing loop removes at most 50 items from the
\* orderbook queue and at most 50 from the ticker queue, whether their
\* processing fails or not, and takes from a non-empty ticker queue whatever
\* the orderbook queue holds
C33_BatchLimited ==
    [][ProcessStep =>
          /\ Len(orderbook_queue) - Len(orderbook_queue') <= BatchLimit
          /\ Len(ticker_queue) - Len(ticker_queue') <= BatchLimit
          /\ ticker_queue # <<>> => Len(ticker_queue') < Len(ticker_queue)]_vars

-----------------------------------------------------------------------------
(* C34: orderbook lines of the processing stage *)

\* the step processes the one item of the orderbook queue, an item with its four
\* keys and a two-sided payload, and the processor has a scroller
SingleOrderbook ==
    /\ ~IsNone(scroller)
    /\ Len(orderbook_queue) = 1
    /\ orderbook_queue' = <<>>
    /\ ItemKeys \subseteq DOMAIN orderbook_queue[1]
    /\ ~ScrollerCheckRaises(orderbook_queue[1].data)
    /\ ~IsNone(orderbook_queue[1].data.best_bid)
    /\ ~IsNone(orderbook_queue[1].data.best_ask)

\* 500 ms have passed since the last orderbook line, and no line was emitted for
\* the item's (venue, symbol) or its mid-price moved by at least 0.01 % since
LineDue(s, item, t) ==
    /\ ~Throttled(s, t)
    /\ ~PriceUnchanged(s, item.exchange, item.symbol,
                       Val(item.data.best_bid).price, Val(item.data.best_ask).price)

\* C34: processing an orderbook update appends one orderbook line to the
\* scroller exactly when 500 ms have passed since the last such line and the
\* mid-price differs by at least 0.01 % from the one of the last line of that
\* (venue, symbol), or there was none; the state store is updated in any case
C34_OrderbookLineWhenDue ==
    [][SingleOrderbook =>
          LET item == orderbook_queue[1]
              key == <<item.exchange, item.symbol>>
          IN /\ Len(Val(scroller').recent_messages)
                    = Len(Val(scroller).recent_messages)
                          + (IF LineDue(Val(scroller), item, now) THEN 1 ELSE 0)
             /\ orderbooks'[key] = Some(item.data)
             /\ orderbook_timestamps'[key] = Some(item.timestamp)]_vars

-----------------------------------------------------------------------------
(* C35: what drop-oldest discards *)

\* the step is a callback that discarded the oldest item of the full queue q
\* and enqueued its own
DiscardedOldest(kind, q, q_after, maxsize) ==
    /\ last_cb'.kind = kind
    /\ QueueFull(q, maxsize)
    /\ q_after # q
    /\ q_after = Append(Tail(q), Last(q_after))

\* an update of the key of item stands in the queue
QueuedForKey(q, item) == \E i \in 1..Len(q) : ItemKey(q[i]) = ItemKey(item)

\* C35: an item discarded by drop-oldest has been superseded: an update of the
\* same (venue, symbol) enqueued after it stands in the queue, so that the
\* drained queue leaves the state store with the latest update of every key
C35_DiscardedWasSuperseded ==
    [][ /\ DiscardedOldest("orderbook", orderbook_queue, orderbook_queue',
                           cfg.orderbook_queue_size)
            => QueuedForKey(orderbook_queue', Head(orderbook_queue))
        /\ DiscardedOldest("ticker", ticker_queue, ticker_queue', cfg.ticker_queue_size)
            => QueuedForKey(ticker_queue', Head(ticker_queue)) ]_vars

-----------------------------------------------------------------------------
(* C36: query_retry with reraise=False on a coroutine that always fails *)

\* every call of func so far raised an exception of exception_type
AlwaysMatching == \A i \in 1..Len(retry.outcomes) : retry.outcomes[i] = "matching"

\* C36: with reraise=False, a wrapped coroutine that raised a matching exception
\* on every call has been attempted exactly max_attempts times when the wrapper
\* returns, and the wrapper returns default_return, with either wrapper
C36_AttemptsThenDefault ==
    (retry.pc = "done" /\ ~retry.reraise /\ AlwaysMatching)
        => /\ retry.attempts = retry.max_attempts
           /\ retry.result = "default_return"

-----------------------------------------------------------------------------
(* C37: the received counters *)

\* the number of entries the step placed into queue q: a callback places at
\* most one, as the newest
Placed(kind, q, q_after) ==
    IF last_cb'.kind = kind /\ q_after # q /\ q_after # <<>> THEN 1 ELSE 0

\* C37: every step raises orderbook_received (ticker_received) by the number of
\* entries it placed into the orderbook (ticker) queue, drop-oldest overflow
\* included, so that the counter is the number of entries ever placed
C37_ReceivedCountsPlaced ==
    [][ /\ stats'.orderbook_received
               = stats.orderbook_received
                     + Placed("orderbook", orderbook_queue, orderbook_queue')
        /\ stats'.ticker_received
               = stats.ticker_received + Placed("ticker", ticker_queue, ticker_queue') ]_vars

-----------------------------------------------------------------------------
(* C38: one direction per pair of venues *)

\* the unordered pair of venues of a Spread
VenuePair(s) == {s.exchange_buy, s.exchange_sell}

\* C38: calculate_spreads returns at most one Spread for a pair of venues, hence
\* at most n(n-1)/2 Spreads for a symbol quoted on n venues
C38_OneDirectionPerPair ==
    IsNone(calc_arg) =>
        /\ \A i, j \in 1..Len(spreads) :
               VenuePair(spreads[i]) = VenuePair(spreads[j]) => i = j
        /\ 2 * Len(spreads) <= Len(calc_in) * (Len(calc_in) - 1)

\* three venues with valid quotes, each pair of them with a Spread
C38_Witness ==
    /\ IsNone(calc_arg)
    /\ Len(calc_in) = 3
    /\ \A i \in 1..3 : ValidateOrderbook(calc_in[i][2])
    /\ Len(spreads) = 3

\* start() has raised: on the configuration, or on a failed connect
FailedStart == orch.pc \in {"config_failed", "start_failed"}

\* a call of start()
StartStep == orch'.start_calls = orch.start_calls + 1

\* C40: after a start() that raised, the orchestrator is not running and holds no
\* registered adapter, and the next start() runs the startup again (it validates the
\* configuration and, when that is valid, connects) instead of returning at once
C40_FailedStartNotRunning ==
    /\ [](FailedStart => ~orch.running /\ orch.adapters = <<>>)
    /\ [][FailedStart /\ StartStep => orch'.pc \in {"config_failed", "connecting"}]_vars

====
